---- MODULE Spec2Model ----
(***************************************************************************)
(* The operation router of 07_mcp_server/mcp_server.py (handle_call_tool   *)
(* and its nine handlers) together with the vector store it talks to.      *)
(*                                                                         *)
(* The router is Python asyncio code: no handler awaits anything that      *)
(* suspends (the store client is synchronous), so one call of              *)
(* handle_call_tool runs from its first line to its return without another *)
(* call being scheduled in between.  One call is therefore one action.     *)
(*                                                                         *)
(* The store (QdrantClient) is a collaborator outside the repository.  It  *)
(* is modelled by the contract the Qdrant client documents: which calls it *)
(* rejects, what it returns and in which order.  Where the contract leaves *)
(* an order open (listing, retrieve, ties of a search) the order is an     *)
(* input chosen by the environment.                                        *)
(***************************************************************************)
EXTENDS Integers, Sequences, FiniteSets, TLC

VARIABLES
    qdrant_client,   \* the module global: 0 for None, else the k-th QdrantClient built
    constructed,     \* how many QdrantClient objects have been built successfully
    running,         \* "loaded", "up", or "exited" once main() returned without serving
    store,           \* the collections of the vector store
    pre,             \* the store as it was when the last call started
    call,            \* the last call: operation name and arguments
    resp,            \* what the last call gave back to the transport runtime
    log,             \* the store methods the last call invoked, in order
    last_upsert,     \* history: the point of the call before this one, when that call
                     \* was a successful upsert_vectors of one point (else NoUpsert)
    last_create,     \* history: the arguments of the call before this one, when that
                     \* call was a successful create_collection (else NoCreate)
    twin,            \* what a process that has handled no call yet answers to the
                     \* last call, on the same store behaving the same way
    flight,          \* the calls in flight at once, each at its own step (SpecFlow)
    tools,           \* the catalogue as a client last got it from handle_list_tools
                     \* (<<>> before its first listing)
    menu             \* the menu program main.py: where its loop is, what its last
                     \* pass did, and the collections of the store it works on

vars == <<qdrant_client, constructed, running, store, pre, call, resp, log, last_upsert,
          last_create, twin, flight, tools, menu>>

(***************************************************************************)
(* Bounds of the model.                                                    *)
(***************************************************************************)
\* longest list of ids given to delete_vectors / get_vectors
MaxIds == 2
\* longest list of points given to upsert_vectors
MaxVectors == 2

\* the most calls in flight at once
MaxCallers == 2

\* the longest list of ids or of points in the calls that are handled twice
TwinLen == 1

(***************************************************************************)
(* Values.  A Python str is a sequence of characters, an int is a number;  *)
(* both are wrapped so that an id of either type is one kind of value.     *)
(* "sup2" stands for the one character U+00B2 (superscript two), for which *)
(* str.isdigit() is True and int() raises ValueError.                      *)
(***************************************************************************)
Str(s) == [t |-> "str", s |-> s, v |-> 0]

Int_(n) == [t |-> "int", s |-> <<>>, v |-> n]

AsciiDigits == {"0", "1", "2", "4"}

DigitChars == AsciiDigits \cup {"sup2"}

DigitValue(c) == CASE c = "0" -> 0 [] c = "1" -> 1 [] c = "2" -> 2 [] c = "4" -> 4

\* str.isdigit(): at least one character and every character a digit
IsDigit(s) == Len(s) > 0 /\ \A i \in 1..Len(s) : s[i] \in DigitChars

\* int(s) of a string that passed isdigit(): the decimal value, or ValueError
IntRaises(s) == \E i \in 1..Len(s) : s[i] \notin AsciiDigits

RECURSIVE IntValue(_)
IntValue(s) ==
    IF Len(s) = 0 THEN 0
    ELSE 10 * IntValue(SubSeq(s, 1, Len(s) - 1)) + DigitValue(s[Len(s)])

(***************************************************************************)
(* Outcomes of a computation: a value, or a raised exception (its class    *)
(* and str(e)).                                                            *)
(***************************************************************************)
Ok(v) == [raised |-> FALSE, exc |-> "", msg |-> <<>>, val |-> v]

Raise(exc, msg) == [raised |-> TRUE, exc |-> exc, msg |-> msg, val |-> <<>>]

\* arguments[key]: KeyError(key) when the key is absent; str(KeyError(k)) is repr(k)
KeyErrorOf(key) == Raise("KeyError", <<"'", key, "'">>)

Has(args, key) == key \in DOMAIN args

(***************************************************************************)
(* Identifier normalization, as written three times in the router:         *)
(*     if isinstance(point_id, str) and point_id.isdigit():                *)
(*         point_id = int(point_id)                                        *)
(***************************************************************************)

\* normalization with len(point_id) in the place of int(point_id)
NormalizeId_len(id) ==
    IF id.t = "str" /\ IsDigit(id.s) THEN Ok(Int_(Len(id.s))) ELSE Ok(id)

NormalizeId(id) ==
    IF id.t = "str" /\ IsDigit(id.s)
    THEN IF IntRaises(id.s)
         THEN Raise("ValueError", <<"invalid literal for int() with base 10: ">> \o id.s)
         ELSE Ok(Int_(IntValue(id.s)))
    ELSE Ok(id)

\* "for point_id in ids": the items a Python value yields when iterated
Iterate(x) ==
    CASE x.t = "list" -> Ok(x.v)
      [] x.t = "str"  -> Ok([i \in 1..Len(x.s) |-> Str(<<x.s[i]>>)])
      [] x.t = "int"  -> Raise("TypeError", <<"'int' object is not iterable">>)

\* the conversion loop of delete_vectors / get_vectors over the items of ids
RECURSIVE ConvertLoop(_, _)
ConvertLoop(items, acc) ==
    IF Len(items) = 0 THEN Ok(acc)
    ELSE LET n == NormalizeId(Head(items))
         IN IF n.raised THEN n
            ELSE ConvertLoop(Tail(items), Append(acc, n.val))

ConvertIds(ids) ==
    LET it == Iterate(ids)
    IN IF it.raised THEN it ELSE ConvertLoop(it.val, <<>>)

(***************************************************************************)
(* The vector store.  A collection is its configuration and its points; a  *)
(* point is [id, vector, payload].  The store accepts unsigned integers    *)
(* and UUID strings as point ids; no string of this model is a UUID.       *)
(* Vectors have one component, so every number below is exact: the cosine  *)
(* of two non-zero 1-d vectors is the sign of their product, the Euclidean *)
(* distance is the absolute difference.                                    *)
(***************************************************************************)
CollNames == {"c1", "c2"}

NoCollection == [exists |-> FALSE, size |-> 0, distance |-> "", points |-> {}]

EmptyStore == [c \in CollNames |-> NoCollection]

Existing(st) == {c \in CollNames : st[c].exists}

\* the environment of one call: is the store reachable, and the orders the
\* store's contract leaves open
Perms(S) == {f \in [1..Cardinality(S) -> S] : \A x \in S : \E i \in DOMAIN f : f[i] = x}

Pos(seq, x) == CHOOSE i \in DOMAIN seq : seq[i] = x

Unreachable == Raise("ResponseHandlingException", <<"connection refused">>)

NotFound(c) == Raise("UnexpectedResponse", <<"Not found: Collection ", c, " doesn't exist">>)

BadPointId == Raise("UnexpectedResponse", <<"value is not a valid point ID">>)

IsStoreId(id) == id.t = "int" /\ id.v >= 0

Dot(q, v) == q[1] * v[1]

Abs(n) == IF n < 0 THEN -n ELSE n

Score(distance, q, v) ==
    CASE distance = "COSINE" -> (IF Dot(q, v) > 0 THEN 1 ELSE IF Dot(q, v) < 0 THEN -1 ELSE 0)
      [] distance = "DOT"    -> Dot(q, v)
      [] distance = "EUCLID" -> Abs(q[1] - v[1])

\* is score a strictly better than score b under the metric
Better(distance, a, b) == IF distance = "EUCLID" THEN a < b ELSE a > b

\* does a score pass score_threshold: "less similar results are not returned";
\* whether a score equal to the threshold passes is the store's choice
Passes(distance, s, threshold, strict) ==
    IF distance = "EUCLID"
    THEN s < threshold \/ (s = threshold /\ ~strict)
    ELSE s > threshold \/ (s = threshold /\ ~strict)

\* the store's ranking: best score first, ties in the store's own order
RECURSIVE Ranked(_, _, _)
Ranked(hits, distance, idOrd) ==
    IF hits = {} THEN <<>>
    ELSE LET best == CHOOSE h \in hits : \A g \in hits :
                        \/ Better(distance, h.score, g.score)
                        \/ h.score = g.score /\ Pos(idOrd, h.id) <= Pos(idOrd, g.id)
         IN <<best>> \o Ranked(hits \ {best}, distance, idOrd)

\* the records of a set of points in the store's own order
RECURSIVE InOrder(_, _)
InOrder(pts, idOrd) ==
    IF pts = {} THEN <<>>
    ELSE LET first == CHOOSE p \in pts : \A g \in pts : Pos(idOrd, p.id) <= Pos(idOrd, g.id)
         IN <<first>> \o InOrder(pts \ {first}, idOrd)

Take(seq, n) == SubSeq(seq, 1, IF Len(seq) < n THEN Len(seq) ELSE n)

Range(seq) == {seq[i] : i \in DOMAIN seq}

(* Each store method gives [out |-> outcome, store |-> the store afterwards]. *)
Store_get_collections(st, env) ==
    IF ~env.up THEN [out |-> Unreachable, store |-> st]
    ELSE [out |-> Ok(SelectSeq(env.nameOrd, LAMBDA c : st[c].exists)), store |-> st]

Store_create_collection(st, env, name, size, distance) ==
    IF ~env.up THEN [out |-> Unreachable, store |-> st]
    ELSE IF name \notin CollNames
    THEN [out |-> Raise("UnexpectedResponse", <<"invalid collection name">>), store |-> st]
    ELSE IF size < 1
    THEN [out |-> Raise("UnexpectedResponse", <<"vectors.size: value must be 1 or larger">>),
          store |-> st]
    ELSE IF st[name].exists
    THEN [out |-> Raise("UnexpectedResponse", <<"Collection ", name, " already exists!">>),
          store |-> st]
    ELSE [out |-> Ok(TRUE),
          store |-> [st EXCEPT ![name] =
                        [exists |-> TRUE, size |-> size, distance |-> distance, points |-> {}]]]

\* deleting a collection that does not exist is answered False, not raised
Store_delete_collection(st, env, name) ==
    IF ~env.up THEN [out |-> Unreachable, store |-> st]
    ELSE IF name \in CollNames /\ st[name].exists
    THEN [out |-> Ok(TRUE), store |-> [st EXCEPT ![name] = NoCollection]]
    ELSE [out |-> Ok(FALSE), store |-> st]

Store_get_collection(st, env, name) ==
    IF ~env.up THEN [out |-> Unreachable, store |-> st]
    ELSE IF name \notin CollNames \/ ~st[name].exists THEN [out |-> NotFound(name), store |-> st]
    ELSE [out |-> Ok([status |-> "green",
                      points_count |-> Cardinality(st[name].points),
                      size |-> st[name].size,
                      distance |-> st[name].distance]),
          store |-> st]

\* points of a batch are applied in order: a later point with the same id wins
RECURSIVE Put(_, _)
Put(pts, batch) ==
    IF Len(batch) = 0 THEN pts
    ELSE Put({p \in pts : p.id # Head(batch).id} \cup {Head(batch)}, Tail(batch))

Store_upsert(st, env, name, points) ==
    IF ~env.up THEN [out |-> Unreachable, store |-> st]
    ELSE IF name \notin CollNames \/ ~st[name].exists THEN [out |-> NotFound(name), store |-> st]
    ELSE IF Len(points) = 0 /\ env.rejectEmpty
    THEN [out |-> Raise("UnexpectedResponse", <<"Empty update request">>), store |-> st]
    ELSE IF \E i \in DOMAIN points : ~IsStoreId(points[i].id)
    THEN [out |-> BadPointId, store |-> st]
    ELSE IF \E i \in DOMAIN points : Len(points[i].vector) # st[name].size
    THEN [out |-> Raise("UnexpectedResponse", <<"Vector dimension error">>), store |-> st]
    ELSE [out |-> Ok([operation_id |-> 0, status |-> "completed"]),
          store |-> [st EXCEPT ![name].points = Put(@, points)]]

\* a filter of the model keeps the points whose payload is the given one
Matches(p, filter) == filter.t = "none" \/ p.payload = filter.payload

Store_search(st, env, name, query, limit, threshold, filter) ==
    IF ~env.up THEN [out |-> Unreachable, store |-> st]
    ELSE IF name \notin CollNames \/ ~st[name].exists THEN [out |-> NotFound(name), store |-> st]
    ELSE IF limit < 1
    THEN [out |-> Raise("UnexpectedResponse", <<"limit: value must be 1 or larger">>), store |-> st]
    ELSE IF Len(query) # st[name].size
    THEN [out |-> Raise("UnexpectedResponse", <<"Vector dimension error">>), store |-> st]
    ELSE LET d    == st[name].distance
             hits == {[id |-> p.id, score |-> Score(d, query, p.vector), payload |-> p.payload] :
                        p \in {x \in st[name].points : Matches(x, filter)}}
             kept == {h \in hits : Passes(d, h.score, threshold, env.strict)}
         IN [out |-> Ok(Take(Ranked(kept, d, env.idOrd), limit)), store |-> st]

Store_delete(st, env, name, ids) ==
    IF ~env.up THEN [out |-> Unreachable, store |-> st]
    ELSE IF name \notin CollNames \/ ~st[name].exists THEN [out |-> NotFound(name), store |-> st]
    ELSE IF Len(ids) = 0 /\ env.rejectEmpty
    THEN [out |-> Raise("UnexpectedResponse", <<"Empty update request">>), store |-> st]
    ELSE IF \E i \in DOMAIN ids : ~IsStoreId(ids[i]) THEN [out |-> BadPointId, store |-> st]
    ELSE [out |-> Ok([operation_id |-> 0, status |-> "completed"]),
          store |-> [st EXCEPT ![name].points = {p \in @ : p.id \notin Range(ids)}]]

Store_retrieve(st, env, name, ids) ==
    IF ~env.up THEN [out |-> Unreachable, store |-> st]
    ELSE IF name \notin CollNames \/ ~st[name].exists THEN [out |-> NotFound(name), store |-> st]
    ELSE IF \E i \in DOMAIN ids : ~IsStoreId(ids[i]) THEN [out |-> BadPointId, store |-> st]
    ELSE [out |-> Ok(InOrder({p \in st[name].points : p.id \in Range(ids)}, env.idOrd)),
          store |-> st]

(***************************************************************************)
(* Responses.  Every handler returns one TextContent: either json.dumps of *)
(* a dict (its top-level keys, the value of "status", and its data) or an  *)
(* f-string (a sequence of pieces: the literal prefix, then str(e)).       *)
(***************************************************************************)
Text(prefix, msg) ==
    [kind |-> "text", text |-> <<prefix>> \o msg, keys |-> {}, status |-> "", data |-> <<>>]

Json(keys, status, data) ==
    [kind |-> "json", text |-> <<>>, keys |-> keys, status |-> status, data |-> data]

\* an exception that left handle_call_tool
Escaped(e) == [kind |-> "raise", text |-> <<e.exc>> \o e.msg, keys |-> {}, status |-> "", data |-> <<>>]

\* one call of a store method: the method, what it was given, how it ended
Entry(m, args, out) ==
    [m |-> m, args |-> args, raised |-> out.raised, exc |-> out.exc, msg |-> out.msg]

Done(r, st, lg) == [resp |-> r, store |-> st, log |-> lg]

\* models.Distance, and the value json.dumps writes for a member
distance_map == [d \in {"Cosine", "Euclid", "Dot"} |->
                    CASE d = "Cosine" -> "COSINE" [] d = "Euclid" -> "EUCLID" [] d = "Dot" -> "DOT"]

EnumValue(member) ==
    CASE member = "COSINE" -> "Cosine" [] member = "EUCLID" -> "Euclid" [] member = "DOT" -> "Dot"

(***************************************************************************)
(* The nine handlers.  st is the store, env the environment of the call.   *)
(* Each handler is its try block up to the store call, and a ..._reply     *)
(* operator for what follows the call: the success dict or, from the       *)
(* except clause, the error text.  r is what the store method gave.        *)
(***************************************************************************)

\* handle_list_collections with an except clause that answers an empty listing
list_collections_reply_empty(r) ==
    Done(Json({"collections", "count"}, "",
              IF r.out.raised THEN [collections |-> <<>>, count |-> 0]
              ELSE [collections |-> r.out.val, count |-> Len(r.out.val)]),
         r.store, <<Entry("get_collections", <<>>, r.out)>>)

list_collections_reply(r) ==
    Done(IF r.out.raised
         THEN Text("Error listing collections: ", r.out.msg)
         ELSE Json({"collections", "count"}, "",
                   [collections |-> r.out.val, count |-> Len(r.out.val)]),
         r.store, <<Entry("get_collections", <<>>, r.out)>>)

handle_list_collections(st, env) == list_collections_reply(Store_get_collections(st, env))

create_collection_fail(st, e) == Done(Text("Error creating collection: ", e.msg), st, <<>>)

create_collection_reply(r, name, vector_size, distance) ==
    Done(IF r.out.raised
         THEN Text("Error creating collection: ", r.out.msg)
         ELSE Json({"status", "message", "collection"}, "success",
                   [name |-> name, vector_size |-> vector_size, distance |-> distance]),
         r.store,
         <<Entry("create_collection", <<name, vector_size, distance_map[distance]>>, r.out)>>)

\* create_collection through client.recreate_collection: delete, then create
create_collection_call_recreating(st, env, name, vector_size, distance) ==
    IF distance \notin DOMAIN distance_map
    THEN create_collection_fail(st, KeyErrorOf(distance))
    ELSE create_collection_reply(
            Store_create_collection(Store_delete_collection(st, env, name).store,
                                    env, name, vector_size, distance_map[distance]),
            name, vector_size, distance)

\* create_collection looking the metric up with distance_map.get(distance, COSINE)
create_collection_call_lenient(st, env, name, vector_size, distance) ==
    create_collection_reply(
        Store_create_collection(st, env, name, vector_size,
            IF distance \in DOMAIN distance_map THEN distance_map[distance] ELSE "COSINE"),
        name, vector_size,
        IF distance \in DOMAIN distance_map THEN distance ELSE "Cosine")

create_collection_call(st, env, name, vector_size, distance) ==
    IF distance \notin DOMAIN distance_map
    THEN create_collection_fail(st, KeyErrorOf(distance))
    ELSE create_collection_reply(
            Store_create_collection(st, env, name, vector_size, distance_map[distance]),
            name, vector_size, distance)

\* create_collection reading vector_size with arguments.get("vector_size", 1)
handle_create_collection_defaulting(st, env, arguments) ==
    IF ~Has(arguments, "name") THEN create_collection_fail(st, KeyErrorOf("name"))
    ELSE create_collection_call(st, env, arguments["name"],
            IF Has(arguments, "vector_size") THEN arguments["vector_size"] ELSE 1,
            IF Has(arguments, "distance") THEN arguments["distance"] ELSE "Cosine")

\* create_collection with arguments.get("distance", "Euclid")
handle_create_collection_euclid(st, env, arguments) ==
    IF ~Has(arguments, "name") THEN create_collection_fail(st, KeyErrorOf("name"))
    ELSE IF ~Has(arguments, "vector_size")
    THEN create_collection_fail(st, KeyErrorOf("vector_size"))
    ELSE create_collection_call(st, env, arguments["name"], arguments["vector_size"],
            IF Has(arguments, "distance") THEN arguments["distance"] ELSE "Euclid")

handle_create_collection(st, env, arguments) ==
    IF ~Has(arguments, "name") THEN create_collection_fail(st, KeyErrorOf("name"))
    ELSE IF ~Has(arguments, "vector_size")
    THEN create_collection_fail(st, KeyErrorOf("vector_size"))
    ELSE create_collection_call(st, env, arguments["name"], arguments["vector_size"],
            IF Has(arguments, "distance") THEN arguments["distance"] ELSE "Cosine")

\* delete_collection answering a failure with a JSON object of status "error"
delete_collection_reply_structured(r, name) ==
    Done(IF r.out.raised
         THEN Json({"status", "message"}, "error", [name |-> name])
         ELSE Json({"status", "message"}, "success", [name |-> name]),
         r.store, <<Entry("delete_collection", <<name>>, r.out)>>)

delete_collection_reply(r, name) ==
    Done(IF r.out.raised
         THEN Text("Error deleting collection: ", r.out.msg)
         ELSE Json({"status", "message"}, "success", [name |-> name]),
         r.store, <<Entry("delete_collection", <<name>>, r.out)>>)

handle_delete_collection(st, env, arguments) ==
    IF ~Has(arguments, "name")
    THEN Done(Text("Error deleting collection: ", KeyErrorOf("name").msg), st, <<>>)
    ELSE delete_collection_reply(Store_delete_collection(st, env, arguments["name"]),
                                 arguments["name"])

collection_info(name, info) ==
    [name |-> name, status |-> info.status, points_count |-> info.points_count,
     size |-> info.size, distance |-> EnumValue(info.distance)]

get_collection_info_reply(r, name) ==
    Done(IF r.out.raised
         THEN Text("Error getting collection info: ", r.out.msg)
         ELSE Json({"collection"}, "", collection_info(name, r.out.val)),
         r.store, <<Entry("get_collection", <<name>>, r.out)>>)

handle_get_collection_info(st, env, arguments) ==
    IF ~Has(arguments, "name")
    THEN Done(Text("Error getting collection info: ", KeyErrorOf("name").msg), st, <<>>)
    ELSE get_collection_info_reply(Store_get_collection(st, env, arguments["name"]),
                                   arguments["name"])

\* PointStruct built without the payload of the point
PointStruct_without_payload(point_id, vector_data) ==
    [id |-> point_id, vector |-> vector_data["vector"], payload |-> "{}"]

\* PointStruct(id=point_id, vector=vector_data["vector"],
\*             payload=vector_data.get("payload", {}))
PointStruct(point_id, vector_data) ==
    [id |-> point_id,
     vector |-> vector_data["vector"],
     payload |-> IF Has(vector_data, "payload") THEN vector_data["payload"] ELSE "{}"]

\* the loop of upsert_vectors leaving out the elements it cannot build
RECURSIVE BuildPoints_skipping(_, _)
BuildPoints_skipping(vectors_data, points) ==
    IF Len(vectors_data) = 0 THEN Ok(points)
    ELSE IF \/ ~Has(Head(vectors_data), "id")
            \/ ~Has(Head(vectors_data), "vector")
            \/ NormalizeId(Head(vectors_data)["id"]).raised
    THEN BuildPoints_skipping(Tail(vectors_data), points)
    ELSE BuildPoints_skipping(Tail(vectors_data),
                              Append(points, PointStruct(NormalizeId(Head(vectors_data)["id"]).val,
                                                         Head(vectors_data))))

\* the loop of upsert_vectors that builds the list of points
RECURSIVE BuildPoints(_, _)
BuildStep(n, vectors_data, points) ==
    IF n.raised THEN n
    ELSE IF ~Has(Head(vectors_data), "vector") THEN KeyErrorOf("vector")
    ELSE BuildPoints(Tail(vectors_data), Append(points, PointStruct(n.val, Head(vectors_data))))

BuildPoints(vectors_data, points) ==
    IF Len(vectors_data) = 0 THEN Ok(points)
    ELSE IF ~Has(Head(vectors_data), "id") THEN KeyErrorOf("id")
    ELSE BuildStep(NormalizeId(Head(vectors_data)["id"]), vectors_data, points)

upsert_vectors_fail(st, e) == Done(Text("Error upserting vectors: ", e.msg), st, <<>>)

\* upsert_vectors answering a failure of the store in words of its own
upsert_vectors_reply_generic(r, collection, points) ==
    Done(IF r.out.raised
         THEN Text("Error upserting vectors: ", <<"the store failed">>)
         ELSE Json({"status", "message", "operation_id", "status_info"}, "success",
                   [collection |-> collection, upserted |-> Len(points),
                    operation_id |-> r.out.val.operation_id,
                    status_info |-> r.out.val.status]),
         r.store, <<Entry("upsert", <<collection, points>>, r.out)>>)

upsert_vectors_reply(r, collection, points) ==
    Done(IF r.out.raised
         THEN Text("Error upserting vectors: ", r.out.msg)
         ELSE Json({"status", "message", "operation_id", "status_info"}, "success",
                   [collection |-> collection, upserted |-> Len(points),
                    operation_id |-> r.out.val.operation_id,
                    status_info |-> r.out.val.status]),
         r.store, <<Entry("upsert", <<collection, points>>, r.out)>>)

upsert_vectors_call(st, env, collection, b) ==
    IF b.raised THEN upsert_vectors_fail(st, b)
    ELSE upsert_vectors_reply(Store_upsert(st, env, collection, b.val), collection, b.val)

handle_upsert_vectors(st, env, arguments) ==
    IF ~Has(arguments, "collection") THEN upsert_vectors_fail(st, KeyErrorOf("collection"))
    ELSE IF ~Has(arguments, "vectors") THEN upsert_vectors_fail(st, KeyErrorOf("vectors"))
    ELSE upsert_vectors_call(st, env, arguments["collection"],
                             BuildPoints(arguments["vectors"], <<>>))

\* len(x) of a list or a str
LenOf(x) == IF x.t = "str" THEN Len(x.s) ELSE Len(x.v)

NoFilter == [t |-> "none", payload |-> ""]

search_vectors_reply(r, collection, query_vector, limit, score_threshold, filter) ==
    Done(IF r.out.raised
         THEN Text("Error searching vectors: ", r.out.msg)
         ELSE Json({"status", "query", "results", "count"}, "success",
                   [collection |-> collection, limit |-> limit,
                    score_threshold |-> score_threshold,
                    results |-> r.out.val, count |-> Len(r.out.val)]),
         r.store,
         <<Entry("search", <<collection, query_vector, limit, score_threshold, filter>>, r.out)>>)

search_vectors_call(st, env, collection, query_vector, limit, score_threshold, filter) ==
    search_vectors_reply(
        Store_search(st, env, collection, query_vector, limit, score_threshold, filter),
        collection, query_vector, limit, score_threshold, filter)

\* search_vectors passing limit=10 whatever the caller asked for
handle_search_vectors_unlimited(st, env, arguments) ==
    IF ~Has(arguments, "collection")
    THEN Done(Text("Error searching vectors: ", KeyErrorOf("collection").msg), st, <<>>)
    ELSE IF ~Has(arguments, "query_vector")
    THEN Done(Text("Error searching vectors: ", KeyErrorOf("query_vector").msg), st, <<>>)
    ELSE search_vectors_call(st, env, arguments["collection"], arguments["query_vector"],
            10,
            IF Has(arguments, "score_threshold") THEN arguments["score_threshold"] ELSE 0,
            IF Has(arguments, "filter") THEN arguments["filter"] ELSE NoFilter)

handle_search_vectors(st, env, arguments) ==
    IF ~Has(arguments, "collection")
    THEN Done(Text("Error searching vectors: ", KeyErrorOf("collection").msg), st, <<>>)
    ELSE IF ~Has(arguments, "query_vector")
    THEN Done(Text("Error searching vectors: ", KeyErrorOf("query_vector").msg), st, <<>>)
    ELSE search_vectors_call(st, env, arguments["collection"], arguments["query_vector"],
            IF Has(arguments, "limit") THEN arguments["limit"] ELSE 10,
            IF Has(arguments, "score_threshold") THEN arguments["score_threshold"] ELSE 0,
            IF Has(arguments, "filter") THEN arguments["filter"] ELSE NoFilter)

delete_vectors_fail(st, e) == Done(Text("Error deleting vectors: ", e.msg), st, <<>>)

\* delete_vectors calling client.delete a second time when the first call raised
delete_vectors_reply_retrying(r, collection, ids, converted_ids) ==
    Done(IF r.out.raised
         THEN Text("Error deleting vectors: ", r.out.msg)
         ELSE Json({"status", "message", "operation_id", "status_info"}, "success",
                   [collection |-> collection, deleted |-> LenOf(ids),
                    operation_id |-> r.out.val.operation_id,
                    status_info |-> r.out.val.status]),
         r.store,
         IF r.out.raised
         THEN <<Entry("delete", <<collection, converted_ids>>, r.out),
                Entry("delete", <<collection, converted_ids>>, r.out)>>
         ELSE <<Entry("delete", <<collection, converted_ids>>, r.out)>>)

delete_vectors_reply(r, collection, ids, converted_ids) ==
    Done(IF r.out.raised
         THEN Text("Error deleting vectors: ", r.out.msg)
         ELSE Json({"status", "message", "operation_id", "status_info"}, "success",
                   [collection |-> collection, deleted |-> LenOf(ids),
                    operation_id |-> r.out.val.operation_id,
                    status_info |-> r.out.val.status]),
         r.store, <<Entry("delete", <<collection, converted_ids>>, r.out)>>)

delete_vectors_call(st, env, collection, ids, c) ==
    IF c.raised THEN delete_vectors_fail(st, c)
    ELSE delete_vectors_reply(Store_delete(st, env, collection, c.val), collection, ids, c.val)

handle_delete_vectors(st, env, arguments) ==
    IF ~Has(arguments, "collection") THEN delete_vectors_fail(st, KeyErrorOf("collection"))
    ELSE IF ~Has(arguments, "ids") THEN delete_vectors_fail(st, KeyErrorOf("ids"))
    ELSE delete_vectors_call(st, env, arguments["collection"], arguments["ids"],
                             ConvertIds(arguments["ids"]))

get_vectors_fail(st, e) == Done(Text("Error getting vectors: ", e.msg), st, <<>>)

\* the records of the response: id, vector and payload of each point
RecordsOf(points) ==
    [i \in DOMAIN points |->
        [id |-> points[i].id, vector |-> points[i].vector, payload |-> points[i].payload]]

\* get_vectors answering an error when a requested id has no record
get_vectors_reply_strict(r, collection, converted_ids) ==
    Done(IF r.out.raised
         THEN Text("Error getting vectors: ", r.out.msg)
         ELSE IF Len(r.out.val) # Len(converted_ids)
         THEN Text("Error getting vectors: ", <<"ids not found">>)
         ELSE Json({"status", "vectors", "count"}, "success",
                   [vectors |-> RecordsOf(r.out.val), count |-> Len(r.out.val)]),
         r.store, <<Entry("retrieve", <<collection, converted_ids>>, r.out)>>)

get_vectors_reply(r, collection, converted_ids) ==
    Done(IF r.out.raised
         THEN Text("Error getting vectors: ", r.out.msg)
         ELSE Json({"status", "vectors", "count"}, "success",
                   [vectors |-> RecordsOf(r.out.val), count |-> Len(r.out.val)]),
         r.store, <<Entry("retrieve", <<collection, converted_ids>>, r.out)>>)

\* get_vectors that takes the points out of the collection as it reads them
get_vectors_call_taking(st, env, collection, c) ==
    IF c.raised THEN get_vectors_fail(st, c)
    ELSE get_vectors_reply([out |-> Store_retrieve(st, env, collection, c.val).out,
                            store |-> Store_delete(st, env, collection, c.val).store],
                           collection, c.val)

get_vectors_call(st, env, collection, c) ==
    IF c.raised THEN get_vectors_fail(st, c)
    ELSE get_vectors_reply(Store_retrieve(st, env, collection, c.val), collection, c.val)

handle_get_vectors(st, env, arguments) ==
    IF ~Has(arguments, "collection") THEN get_vectors_fail(st, KeyErrorOf("collection"))
    ELSE IF ~Has(arguments, "ids") THEN get_vectors_fail(st, KeyErrorOf("ids"))
    ELSE get_vectors_call(st, env, arguments["collection"], ConvertIds(arguments["ids"]))

\* health_check answering a failed listing like every other handler does
health_check_reply_error(r, now) ==
    Done(IF r.out.raised
         THEN Text("Error in health check: ", r.out.msg)
         ELSE Json({"status", "message", "collections_count", "timestamp"}, "healthy",
                   [message |-> <<"Qdrant connection is working">>,
                    collections_count |-> Len(r.out.val),
                    timestamp |-> now]),
         r.store, <<Entry("get_collections", <<>>, r.out)>>)

\* now is asyncio.get_event_loop().time() as the handler reads it
health_check_reply(r, now) ==
    Done(IF r.out.raised
         THEN Json({"status", "message", "timestamp"}, "unhealthy",
                   [message |-> <<"Qdrant connection failed: ">> \o r.out.msg,
                    collections_count |-> -1,
                    timestamp |-> now])
         ELSE Json({"status", "message", "collections_count", "timestamp"}, "healthy",
                   [message |-> <<"Qdrant connection is working">>,
                    collections_count |-> Len(r.out.val),
                    timestamp |-> now]),
         r.store, <<Entry("get_collections", <<>>, r.out)>>)

handle_health_check(st, env) == health_check_reply(Store_get_collections(st, env), env.now)

(***************************************************************************)
(* The lazily created client and the dispatcher.                           *)
(***************************************************************************)
\* get_qdrant_client without "if qdrant_client is None": a client per call
get_qdrant_client_eager(client, n, env) ==
    IF env.construct
    THEN [out |-> Ok(n + 1), client |-> n + 1, constructed |-> n + 1]
    ELSE [out |-> Raise("ValueError", <<"cannot build QdrantClient">>),
          client |-> client, constructed |-> n]

\* get_qdrant_client(): [out, client, constructed] from the global and the
\* number of clients built so far; env.construct says whether QdrantClient(...)
\* returns or raises.  out.val is the client the caller gets.
get_qdrant_client(client, n, env) ==
    IF client = 0
    THEN IF env.construct
         THEN [out |-> Ok(n + 1), client |-> n + 1, constructed |-> n + 1]
         ELSE [out |-> Raise("ValueError", <<"cannot build QdrantClient">>),
               client |-> client, constructed |-> n]
    ELSE [out |-> Ok(client), client |-> client, constructed |-> n]

\* handle_list_tools without health_check until the client is built
handle_list_tools_lazy ==
    <<[name |-> "list_collections", required |-> {}],
      [name |-> "create_collection", required |-> {"name", "vector_size"}],
      [name |-> "delete_collection", required |-> {"name"}],
      [name |-> "get_collection_info", required |-> {"name"}],
      [name |-> "upsert_vectors", required |-> {"collection", "vectors"}],
      [name |-> "search_vectors", required |-> {"collection", "query_vector"}],
      [name |-> "delete_vectors", required |-> {"collection", "ids"}],
      [name |-> "get_vectors", required |-> {"collection", "ids"}]>>
    \o (IF qdrant_client = 0 THEN <<>> ELSE <<[name |-> "health_check", required |-> {}]>>)

\* handle_list_tools(): the list it returns, each Tool by its name and the
\* "required" of its inputSchema
handle_list_tools ==
    <<[name |-> "list_collections", required |-> {}],
      [name |-> "create_collection", required |-> {"name", "vector_size"}],
      [name |-> "delete_collection", required |-> {"name"}],
      [name |-> "get_collection_info", required |-> {"name"}],
      [name |-> "upsert_vectors", required |-> {"collection", "vectors"}],
      [name |-> "search_vectors", required |-> {"collection", "query_vector"}],
      [name |-> "delete_vectors", required |-> {"collection", "ids"}],
      [name |-> "get_vectors", required |-> {"collection", "ids"}],
      [name |-> "health_check", required |-> {}]>>

\* the names handle_list_tools advertises
ToolNames == {"list_collections", "create_collection", "delete_collection",
              "get_collection_info", "upsert_vectors", "search_vectors",
              "delete_vectors", "get_vectors", "health_check"}

Via(handler, d) == [resp |-> d.resp, store |-> d.store, log |-> d.log, handler |-> handler]

\* the if/elif chain of handle_call_tool, once the client is at hand; handler
\* is the handler the chain entered ("" in the else branch)
Dispatch(name, arguments, st, env) ==
    CASE name = "list_collections" ->
            Via("handle_list_collections", handle_list_collections(st, env))
      [] name = "create_collection" ->
            Via("handle_create_collection", handle_create_collection(st, env, arguments))
      [] name = "delete_collection" ->
            Via("handle_delete_collection", handle_delete_collection(st, env, arguments))
      [] name = "get_collection_info" ->
            Via("handle_get_collection_info", handle_get_collection_info(st, env, arguments))
      [] name = "upsert_vectors" ->
            Via("handle_upsert_vectors", handle_upsert_vectors(st, env, arguments))
      [] name = "search_vectors" ->
            Via("handle_search_vectors", handle_search_vectors(st, env, arguments))
      [] name = "delete_vectors" ->
            Via("handle_delete_vectors", handle_delete_vectors(st, env, arguments))
      [] name = "get_vectors" ->
            Via("handle_get_vectors", handle_get_vectors(st, env, arguments))
      [] name = "health_check" ->
            Via("handle_health_check", handle_health_check(st, env))
      [] OTHER ->
            Via("", Done(Text("Unknown tool: ", <<name>>), st, <<>>))

\* handle_call_tool without its except clause: the exception leaves it
call_tool_uncaught(g, st) ==
    [resp |-> Escaped(g.out), store |-> st, log |-> <<>>,
     handler |-> "", used |-> 0, client |-> g.client, constructed |-> g.constructed]

\* what handle_call_tool returns once get_qdrant_client() has returned or raised:
\* the except clause for a raise, the chain otherwise
call_tool_caught(g, st) ==
    [resp |-> Text("Error: ", g.out.msg), store |-> st, log |-> <<>>,
     handler |-> "", used |-> 0, client |-> g.client, constructed |-> g.constructed]

call_tool_dispatched(g, d) ==
    [resp |-> d.resp, store |-> d.store, log |-> d.log,
     handler |-> d.handler, used |-> g.out.val, client |-> g.client,
     constructed |-> g.constructed]

call_tool_body(g, name, arguments, st, env) ==
    IF g.out.raised THEN call_tool_caught(g, st)
    ELSE call_tool_dispatched(g, Dispatch(name, arguments, st, env))

\* handle_call_tool answering "connecting" on the call that builds the client
handle_call_tool_cold(name, arguments, client, n, st, env) ==
    IF client = 0 /\ env.construct
    THEN [resp |-> Text("Error: ", <<"connecting">>), store |-> st, log |-> <<>>,
          handler |-> "", used |-> n + 1, client |-> n + 1, constructed |-> n + 1]
    ELSE call_tool_body(get_qdrant_client(client, n, env), name, arguments, st, env)

handle_call_tool(name, arguments, client, n, st, env) ==
    call_tool_body(get_qdrant_client(client, n, env), name, arguments, st, env)

(***************************************************************************)
(* Inputs.  An argument mapping is a function from the keys it holds to    *)
(* their values.                                                           *)
(***************************************************************************)
NoArgs == <<>>

\* the mappings that hold key with a value of S, or do not hold it
Opt(key, S) == {NoArgs} \cup {key :> v : v \in S}

Merge(A, B) == {a @@ b : a \in A, b \in B}

\* names that are not in the catalogue: another case, another word, empty
UnknownNames == {"List_Collections", "drop_database", ""}

\* collection names the callers use; only "c1" is ever created, so "c2" is
\* always a collection that does not exist
NameInputs == CollNames

CreateNameInputs == {"c1"}

\* 0 is not a positive size
VectorSizeInputs == {0, 1}

\* "Manhattan" is no key of distance_map
DistanceInputs == {"Cosine", "Euclid", "Dot", "Manhattan"}

\* ids as the callers of the model supply them
IdInputs == {Str(<<"1">>), Str(<<"4", "2">>), Str(<<"0", "1">>), Str(<<"a">>),
             Str(<<"sup2">>), Str(<<>>), Str(<<"-", "1">>), Int_(1)}

RECURSIVE SeqsUpTo(_, _)
SeqsUpTo(S, n) ==
    IF n = 0 THEN {<<>>}
    ELSE LET shorter == SeqsUpTo(S, n - 1)
         IN shorter \cup {Append(q, x) : q \in {r \in shorter : Len(r) = n - 1}, x \in S}

List(v) == [t |-> "list", s |-> <<>>, v |-> v]

\* ids that is a list, and ids that is not: a str, an int
IdsInputs == {List(q) : q \in SeqsUpTo(IdInputs, MaxIds)}
             \cup {Str(<<"4", "2">>), Str(<<"a">>), Int_(5)}

\* vector and payload of a point; <<1, 1>> has the wrong dimension
UpsertIdInputs == {Str(<<"4", "2">>), Str(<<"0", "1">>), Int_(1), Str(<<"a">>), Str(<<"sup2">>)}

PointInputs ==
    {("id" :> i) @@ ("vector" :> <<1>>) : i \in UpsertIdInputs}
    \cup {("id" :> i) @@ ("vector" :> <<2>>) @@ ("payload" :> "{text:x}") :
            i \in {Str(<<"4", "2">>), Str(<<"0", "1">>), Int_(1)}}
    \cup {"vector" :> <<1>>,
          "id" :> Str(<<"4", "2">>),
          ("id" :> Str(<<"4", "2">>)) @@ ("vector" :> <<1, 1>>)}

\* the ids the store can come to hold
StoreIds == {Int_(1), Int_(42)}

QueryInputs == {<<1>>, <<1, 1>>}

LimitInputs == {0, 1, 2}

ThresholdInputs == {2}

FilterInputs == {[t |-> "payload", payload |-> "{text:x}"]}

(***************************************************************************)
(* The environment of a call: whether the store answers, whether           *)
(* QdrantClient(...) can be built (asked only while the global is None),   *)
(* and the choices the store's contract leaves open.                       *)
(***************************************************************************)
BaseEnv == [up |-> TRUE, construct |-> TRUE, rejectEmpty |-> FALSE, strict |-> FALSE,
            now |-> 1, later |-> 1,
            idOrd |-> <<Int_(1), Int_(42)>>, nameOrd |-> <<"c1", "c2">>]

Envs(client) ==
    {[BaseEnv EXCEPT !.up = u, !.construct = k] :
        u \in BOOLEAN, k \in (IF client = 0 THEN BOOLEAN ELSE {TRUE})}

NameOrders(E) == {[e EXCEPT !.nameOrd = o] : e \in E, o \in Perms(CollNames)}

IdOrders(E) == {[e EXCEPT !.idOrd = o] : e \in E, o \in Perms(StoreIds)}

Strictness(E) == {[e EXCEPT !.strict = b] : e \in E, b \in BOOLEAN}

\* readings of the event loop's clock: now for the call, later for another
\* call at another time
ClockInputs == {1, 2}

Clocks(E) == {[e EXCEPT !.now = t, !.later = u] : e \in E, t \in ClockInputs, u \in ClockInputs}

EmptyPolicies(E) == {[e EXCEPT !.rejectEmpty = b] : e \in E, b \in BOOLEAN}

(***************************************************************************)
(* State machine.                                                          *)
(***************************************************************************)
NoCall == [made |-> FALSE, name |-> "", args |-> NoArgs, handler |-> "", used |-> 0]

NoUpsert == [made |-> FALSE, collection |-> "", point |-> NoArgs]

\* the history of a call that is handed over: an upsert_vectors that succeeded
\* with a list of one point is remembered for the one call that follows
UpsertOf(c, r) ==
    IF /\ c.handler = "handle_upsert_vectors"
       /\ r.kind = "json"
       /\ Len(c.args["vectors"]) = 1
    THEN [made |-> TRUE, collection |-> c.args["collection"], point |-> c.args["vectors"][1]]
    ELSE NoUpsert

NoCreate == [made |-> FALSE, args |-> NoArgs]

\* the history of a call that is handed over: a create_collection that
\* succeeded is remembered for the one call that follows
CreateOf(c, r) ==
    IF c.handler = "handle_create_collection" /\ r.kind = "json"
    THEN [made |-> TRUE, args |-> c.args]
    ELSE NoCreate

NoResp == [kind |-> "none", text |-> <<>>, keys |-> {}, status |-> "", data |-> <<>>]

\* the answer to the same call of a process in its initial state (qdrant_client
\* is None and QdrantClient(...) can be built), on the same store behaving the
\* same way, at the time env.later
Twin(name, arguments, st, env) ==
    handle_call_tool(name, arguments, 0, 0, st,
                     [env EXCEPT !.construct = TRUE, !.now = env.later]).resp

Callers == 1..MaxCallers

\* a caller with no call in flight
NoFlight == [pc |-> "idle", name |-> "", args |-> NoArgs, env |-> BaseEnv,
             steps |-> <<>>, result |-> NoResp, resp |-> NoResp]

\* no demo script was run, no cleanup was done
NoDemo == [folder |-> "", live |-> "", created |-> ""]

NoCleanup == [outcome |-> "", before |-> {}, listed |-> <<>>, processed |-> <<>>,
              failed |-> <<>>, deleted_count |-> 0, kept_count |-> 0]

\* the menu program after FastEmbedDemo() and before run(), on an empty store
NoMenu == [pc |-> "constructed", why |-> "", collections |-> {}, choice |-> "",
           did |-> <<>>, demo |-> NoDemo, cleaned |-> NoCleanup]

Init ==
    /\ qdrant_client = 0
    /\ constructed = 0
    /\ running = "loaded"
    /\ store = EmptyStore
    /\ pre = EmptyStore
    /\ call = NoCall
    /\ resp = NoResp
    /\ log = <<>>
    /\ last_upsert = NoUpsert
    /\ last_create = NoCreate
    /\ twin = NoResp
    /\ flight = [c \in Callers |-> NoFlight]
    /\ tools = <<>>
    /\ menu = NoMenu

\* main(): build the client; return at once when that fails, serve otherwise
Main ==
    /\ running = "loaded"
    /\ \E k \in BOOLEAN :
        \E g \in {get_qdrant_client(qdrant_client, constructed,
                                     [BaseEnv EXCEPT !.construct = k])} :
           /\ qdrant_client' = g.client
           /\ constructed' = g.constructed
           /\ running' = IF g.out.raised THEN "exited" ELSE "up"
    /\ UNCHANGED <<store, pre, call, resp, log, last_upsert, last_create, twin, flight>>
    /\ UNCHANGED <<tools, menu>>

\* a call can be made: the process is alive and no call is being handled
Idle == running # "exited" /\ ~call.made

\* one call of handle_call_tool, from its first line to its return
Handled(name, arguments, env) ==
    /\ \E r \in {handle_call_tool(name, arguments, qdrant_client, constructed, store, env)} :
          /\ qdrant_client' = r.client
          /\ constructed' = r.constructed
          /\ store' = r.store
          /\ resp' = r.resp
          /\ log' = r.log
          /\ call' = [made |-> TRUE, name |-> name, args |-> arguments,
                      handler |-> r.handler, used |-> r.used]
    /\ pre' = store
    /\ running' = "up"
    /\ UNCHANGED <<last_upsert, last_create, flight>>
    /\ UNCHANGED <<tools, menu>>

\* one call of handle_call_tool, from the request to the returned response
Call(name, arguments, env) ==
    /\ Handled(name, arguments, env)
    /\ UNCHANGED twin

\* any mapping may come with a name: these are the ones given to the
\* operations that read no argument
AnyArgs == Opt("name", NameInputs)

CallUnknown ==
    /\ Idle
    /\ \E name \in UnknownNames, a \in AnyArgs, env \in Envs(qdrant_client) : Call(name, a, env)

CallListCollections ==
    /\ Idle
    /\ \E a \in AnyArgs, env \in NameOrders(Envs(qdrant_client)) : Call("list_collections", a, env)

CallHealthCheck ==
    /\ Idle
    /\ \E a \in AnyArgs, env \in Clocks(NameOrders(Envs(qdrant_client))) :
            Call("health_check", a, env)

CallCreateCollection ==
    /\ Idle
    /\ \E a \in Merge(Opt("name", CreateNameInputs),
                       Merge(Opt("vector_size", VectorSizeInputs), Opt("distance", DistanceInputs))),
           env \in Envs(qdrant_client) :
            Call("create_collection", a, env)

CallDeleteCollection ==
    /\ Idle
    /\ \E a \in Opt("name", NameInputs), env \in Envs(qdrant_client) :
            Call("delete_collection", a, env)

CallGetCollectionInfo ==
    /\ Idle
    /\ \E a \in Opt("name", NameInputs), env \in Envs(qdrant_client) :
            Call("get_collection_info", a, env)

CallUpsertVectors ==
    /\ Idle
    /\ \E a \in Merge(Opt("collection", NameInputs),
                       Opt("vectors", SeqsUpTo(PointInputs, MaxVectors))),
           env \in EmptyPolicies(Envs(qdrant_client)) :
            Call("upsert_vectors", a, env)

CallSearchVectors ==
    /\ Idle
    /\ \E a \in Merge(Merge(Opt("collection", NameInputs), Opt("query_vector", QueryInputs)),
                       Merge(Opt("limit", LimitInputs),
                             Merge(Opt("score_threshold", ThresholdInputs),
                                   Opt("filter", FilterInputs)))),
           env \in Strictness(IdOrders(Envs(qdrant_client))) :
            Call("search_vectors", a, env)

CallDeleteVectors ==
    /\ Idle
    /\ \E a \in Merge(Opt("collection", NameInputs), Opt("ids", IdsInputs)),
           env \in EmptyPolicies(Envs(qdrant_client)) :
            Call("delete_vectors", a, env)

CallGetVectors ==
    /\ Idle
    /\ \E a \in Merge(Opt("collection", NameInputs), Opt("ids", IdsInputs)),
           env \in IdOrders(Envs(qdrant_client)) :
            Call("get_vectors", a, env)

\* the transport runtime takes the response; the router keeps nothing of the call
Deliver ==
    /\ call.made
    /\ call' = NoCall
    /\ resp' = NoResp
    /\ log' = <<>>
    /\ pre' = store
    /\ last_upsert' = UpsertOf(call, resp)
    /\ last_create' = CreateOf(call, resp)
    /\ twin' = NoResp
    /\ UNCHANGED <<qdrant_client, constructed, running, store, flight>>
    /\ UNCHANGED <<tools, menu>>

Next ==
    \/ Main
    \/ CallUnknown
    \/ CallListCollections
    \/ CallCreateCollection
    \/ CallDeleteCollection
    \/ CallGetCollectionInfo
    \/ CallUpsertVectors
    \/ CallSearchVectors
    \/ CallDeleteVectors
    \/ CallGetVectors
    \/ CallHealthCheck
    \/ Deliver

Spec == Init /\ [][Next]_vars

(***************************************************************************)
(* The same call handled twice: by the process, after whatever calls it    *)
(* has handled, and by a process in its initial state.                     *)
(***************************************************************************)
\* the calls that are handled twice: every operation, and unknown names
TwinCalls ==
    {[name |-> n, args |-> a] :
        n \in UnknownNames \cup {"list_collections", "health_check"}, a \in AnyArgs}
    \cup {[name |-> "create_collection", args |-> a] :
            a \in Merge(Opt("name", CreateNameInputs),
                        Merge(Opt("vector_size", VectorSizeInputs),
                              Opt("distance", DistanceInputs)))}
    \cup {[name |-> n, args |-> a] :
            n \in {"delete_collection", "get_collection_info"}, a \in Opt("name", NameInputs)}
    \cup {[name |-> "upsert_vectors", args |-> a] :
            a \in Merge(Opt("collection", NameInputs),
                        Opt("vectors", SeqsUpTo(PointInputs, TwinLen)))}
    \cup {[name |-> "search_vectors", args |-> a] :
            a \in Merge(Merge(Opt("collection", NameInputs), Opt("query_vector", QueryInputs)),
                        Merge(Opt("limit", LimitInputs),
                              Opt("score_threshold", ThresholdInputs)))}
    \cup {[name |-> n, args |-> a] :
            n \in {"delete_vectors", "get_vectors"},
            a \in Merge(Opt("collection", NameInputs),
                        Opt("ids", {List(q) : q \in SeqsUpTo(IdInputs, TwinLen)}
                                   \cup {Str(<<"4", "2">>), Int_(5)}))}

\* the behaviours of the environment that matter to an operation
EnvsFor(name, client) ==
    CASE name = "list_collections" -> NameOrders(Envs(client))
      [] name = "health_check" -> Clocks(NameOrders(Envs(client)))
      [] name \in {"upsert_vectors", "delete_vectors"} -> EmptyPolicies(Envs(client))
      [] name = "search_vectors" -> Strictness(IdOrders(Envs(client)))
      [] name = "get_vectors" -> IdOrders(Envs(client))
      [] OTHER -> Envs(client)

\* one call of handle_call_tool, and the same call in a process that has
\* handled none
CallTwice ==
    /\ Idle
    /\ \E k \in TwinCalls :
        \E env \in EnvsFor(k.name, qdrant_client) :
            /\ Handled(k.name, k.args, env)
            /\ twin' = Twin(k.name, k.args, store, env)

NextTwin ==
    \/ Main
    \/ CallTwice
    \/ Deliver

SpecTwin == Init /\ [][NextTwin]_vars

(***************************************************************************)
(* A client of the catalogue: it lists the tools, and calls names that     *)
(* are in the listing it got and names that are not.                       *)
(***************************************************************************)
\* the names of a listing
Advertised(listing) == {listing[i].name : i \in DOMAIN listing}

\* handle_list_tools is called and the client keeps what it returned
ListTools ==
    /\ Idle
    /\ tools' = handle_list_tools
    /\ UNCHANGED <<qdrant_client, constructed, running, store, pre, call, resp, log,
                   last_upsert, last_create, twin, flight, menu>>

\* a call of a name of the listing the client holds
CallListed ==
    /\ Idle
    /\ \E k \in TwinCalls :
        /\ k.name \in Advertised(tools)
        /\ \E env \in EnvsFor(k.name, qdrant_client) : Call(k.name, k.args, env)

\* a call of a name that is not in the listing the client holds
CallUnlisted ==
    /\ Idle
    /\ \E k \in TwinCalls :
        /\ k.name \notin Advertised(tools)
        /\ \E env \in EnvsFor(k.name, qdrant_client) : Call(k.name, k.args, env)

NextTools ==
    \/ Main
    \/ ListTools
    \/ CallListed
    \/ CallUnlisted
    \/ Deliver

SpecTools == Init /\ [][NextTools]_vars

(***************************************************************************)
(* Several calls in flight.  The server starts a task for each request it  *)
(* reads; the tasks share one event loop, so a task that has started runs  *)
(* until it awaits something that suspends it.  A call goes through the    *)
(* steps of its handler: extraction and validation of the arguments (with  *)
(* get_qdrant_client() before them), the store call, the construction of   *)
(* the response.                                                           *)
(***************************************************************************)
\* the steps after which a call is part-way through its handler
PartWay == {"extracted", "invoked"}

\* does the handler hand control back to the event loop after the step: the
\* handlers await nothing between their steps, the store client is called
\* synchronously
Yields_after_validation(point) == point = "extracted"

Yields(point) == FALSE

\* the task of caller c may run: no other task holds the event loop
MayRun(c) ==
    \A d \in Callers \ {c} : flight[d].pc \in PartWay => Yields(flight[d].pc)

\* the calls the concurrent callers make
FlowCalls ==
    {[name |-> "create_collection", args |-> ("name" :> "c1") @@ ("vector_size" :> 1)],
     [name |-> "upsert_vectors",
      args |-> ("collection" :> "c1")
               @@ ("vectors" :> <<("id" :> Str(<<"4", "2">>)) @@ ("vector" :> <<1>>)>>)],
     [name |-> "upsert_vectors", args |-> "collection" :> "c1"],
     [name |-> "get_vectors",
      args |-> ("collection" :> "c1") @@ ("ids" :> List(<<Str(<<"4", "2">>)>>))],
     [name |-> "delete_vectors",
      args |-> ("collection" :> "c1") @@ ("ids" :> List(<<Str(<<"4", "2">>)>>))],
     [name |-> "drop_database", args |-> NoArgs]}

FlowEnvs == {[BaseEnv EXCEPT !.up = u] : u \in BOOLEAN}

\* a request of caller c reaches the server: its task is scheduled
Arrive(c) ==
    /\ running = "up"
    /\ flight[c].pc = "idle"
    /\ \E k \in FlowCalls, env \in FlowEnvs :
          flight' = [flight EXCEPT ![c] =
                        [NoFlight EXCEPT !.pc = "pending", !.name = k.name,
                                         !.args = k.args, !.env = env]]
    /\ UNCHANGED <<qdrant_client, constructed, running, store, pre, call, resp, log,
                   last_upsert, last_create, twin>>
    /\ UNCHANGED <<tools, menu>>

\* handle_call_tool up to the store call: the client, the chain, the arguments;
\* a call that invokes no store method has its response at once
Extract(c) ==
    /\ flight[c].pc = "pending"
    /\ MayRun(c)
    /\ \E r \in {handle_call_tool(flight[c].name, flight[c].args, qdrant_client,
                                  constructed, store, flight[c].env)} :
          /\ qdrant_client' = r.client
          /\ constructed' = r.constructed
          /\ flight' = [flight EXCEPT ![c] =
                          IF r.log = <<>>
                          THEN [@ EXCEPT !.pc = "done", !.steps = <<"extract", "respond">>,
                                         !.resp = r.resp]
                          ELSE [@ EXCEPT !.pc = "extracted", !.steps = <<"extract">>]]
    /\ UNCHANGED <<running, store, pre, call, resp, log, last_upsert, last_create, twin>>
    /\ UNCHANGED <<tools, menu>>

\* the store call of the handler, on the store as it is now
Invoke(c) ==
    /\ flight[c].pc = "extracted"
    /\ MayRun(c)
    /\ \E r \in {handle_call_tool(flight[c].name, flight[c].args, qdrant_client,
                                  constructed, store, flight[c].env)} :
          /\ store' = r.store
          /\ flight' = [flight EXCEPT ![c] =
                          [@ EXCEPT !.pc = "invoked", !.steps = Append(@, "invoke"),
                                    !.result = r.resp]]
    /\ UNCHANGED <<qdrant_client, constructed, running, pre, call, resp, log,
                   last_upsert, last_create, twin>>
    /\ UNCHANGED <<tools, menu>>

\* the result dict or the error text, from what the store call gave
Respond(c) ==
    /\ flight[c].pc = "invoked"
    /\ MayRun(c)
    /\ flight' = [flight EXCEPT ![c] =
                    [@ EXCEPT !.pc = "done", !.steps = Append(@, "respond"),
                              !.resp = flight[c].result]]
    /\ UNCHANGED <<qdrant_client, constructed, running, store, pre, call, resp, log,
                   last_upsert, last_create, twin>>
    /\ UNCHANGED <<tools, menu>>

\* the response is handed to the transport
Return(c) ==
    /\ flight[c].pc = "done"
    /\ flight' = [flight EXCEPT ![c] = NoFlight]
    /\ UNCHANGED <<qdrant_client, constructed, running, store, pre, call, resp, log,
                   last_upsert, last_create, twin>>
    /\ UNCHANGED <<tools, menu>>

NextFlow ==
    \/ Main
    \/ \E c \in Callers : Arrive(c)
    \/ \E c \in Callers : Extract(c)
    \/ \E c \in Callers : Invoke(c)
    \/ \E c \in Callers : Respond(c)
    \/ \E c \in Callers : Return(c)

SpecFlow == Init /\ [][NextFlow]_vars

(***************************************************************************)
(* The menu program, main.py.  FastEmbedDemo.run() shows the menu, reads a *)
(* choice and performs what the choice is mapped to; cleanup_collections   *)
(* deletes the collections it takes for demo collections; run_demo runs a  *)
(* demo script, which may create a collection in the store.  The store is  *)
(* seen by the names of its collections.                                   *)
(***************************************************************************)
\* str.lower(), over the letters A-Z
LowerChar(c) ==
    CASE c = "A" -> "a" [] c = "B" -> "b" [] c = "C" -> "c" [] c = "D" -> "d"
      [] c = "E" -> "e" [] c = "F" -> "f" [] c = "G" -> "g" [] c = "H" -> "h"
      [] c = "I" -> "i" [] c = "J" -> "j" [] c = "K" -> "k" [] c = "L" -> "l"
      [] c = "M" -> "m" [] c = "N" -> "n" [] c = "O" -> "o" [] c = "P" -> "p"
      [] c = "Q" -> "q" [] c = "R" -> "r" [] c = "S" -> "s" [] c = "T" -> "t"
      [] c = "U" -> "u" [] c = "V" -> "v" [] c = "W" -> "w" [] c = "X" -> "x"
      [] c = "Y" -> "y" [] c = "Z" -> "z" [] OTHER -> c

RECURSIVE lower(_)
lower(s) ==
    IF Len(s) = 0 THEN ""
    ELSE LowerChar(SubSeq(s, 1, 1)) \o lower(SubSeq(s, 2, Len(s)))

\* str.strip(), over blanks
RECURSIVE strip(_)
strip(s) ==
    IF Len(s) = 0 THEN s
    ELSE IF SubSeq(s, 1, 1) = " " THEN strip(SubSeq(s, 2, Len(s)))
    ELSE IF SubSeq(s, Len(s), Len(s)) = " " THEN strip(SubSeq(s, 1, Len(s) - 1))
    ELSE s

\* "a in b" of two strings: a is a substring of b
In(a, b) == \E i \in 1..(Len(b) - Len(a) + 1) : SubSeq(b, i, i + Len(a) - 1) = a

\* self.demo_folders: choice -> (folder name, description)
demo_folders ==
    [k \in {"1", "2", "3", "4", "5", "6", "7", "8", "9", "10"} |->
        CASE k = "1" -> <<"01_basic_embeddings", "Basic Text Embeddings (Dense)">>
          [] k = "2" -> <<"02_minicoil", "miniCOIL Sparse Retrieval">>
          [] k = "3" -> <<"03_splade", "SPLADE Sparse Embeddings">>
          [] k = "4" -> <<"04_colbert", "ColBERT Multi-Vector Search">>
          [] k = "5" -> <<"05_reranking", "Reranking">>
          [] k = "6" -> <<"06_qdrant_integration", "Qdrant Integration Demo">>
          [] k = "7" -> <<"07_mcp_server", "MCP Server Integration">>
          [] k = "8" -> <<"08_comparison", "Compare All Methods">>
          [] k = "9" -> <<"cleanup", "Clean Up Demo Resources">>
          [] k = "10" -> <<"exit", "Exit">>]

\* demo_collections of cleanup_collections
demo_collections ==
    <<"basic_embeddings_demo", "basic_embeddings", "dense_embeddings_demo",
      "minicoil_demo", "minicoil_collection", "sparse_minicoil_demo",
      "splade_demo", "splade_collection", "sparse_splade_demo",
      "colbert_demo", "colbert_collection", "multivector_demo", "colbert_multivector_demo",
      "reranking_demo", "reranking_collection", "rerank_demo",
      "fastembed_demo_collection", "qdrant_integration_demo", "integration_demo",
      "mcp_demo_collection", "mcp_server_demo", "mcp_demo",
      "comparison_demo_collection", "comparison_demo", "all_methods_demo",
      "demo_collection", "test_collection", "sample_collection", "example_collection",
      "tutorial_collection", "quickstart_collection">>

\* demo_indicators of cleanup_collections
demo_indicators ==
    <<"_demo", "demo_", "_test", "test_", "_sample", "sample_",
      "_example", "example_", "_tutorial", "tutorial_",
      "_quickstart", "quickstart_", "_playground", "playground_">>

\* demo_pattern.lower() of each demo_pattern
demo_patterns_lower == [i \in DOMAIN demo_collections |-> lower(demo_collections[i])]

\* is_demo with the test of the first loop turned round: the name is looked
\* for in the pattern
is_demo_reversed(collection_name) ==
    \E name \in {lower(collection_name)} :
        \/ \E i \in DOMAIN demo_collections : In(name, demo_patterns_lower[i])
        \/ \E i \in DOMAIN demo_indicators : In(demo_indicators[i], name)

\* is_demo at the end of the two loops over the patterns and the indicators
is_demo(collection_name) ==
    \E name \in {lower(collection_name)} :
        \/ \E i \in DOMAIN demo_collections : In(demo_patterns_lower[i], name)
        \/ \E i \in DOMAIN demo_indicators : In(demo_indicators[i], name)

\* the collection a demo script creates in its live run ("" when it creates none)
DemoCollection(folder_name) ==
    CASE folder_name = "01_basic_embeddings" -> "fastembed_demo_basic_embeddings"
      [] folder_name = "02_minicoil" -> "fastembed_demo_minicoil"
      [] folder_name = "03_splade" -> "fastembed_demo_splade"
      [] folder_name = "04_colbert" -> "fastembed_demo_colbert"
      [] folder_name = "05_reranking" -> "fastembed_demo_reranking"
      [] folder_name = "06_qdrant_integration" -> "fastembed_demo_integration"
      [] folder_name = "mcp_demo" -> "mcp_demo_collection"
      [] OTHER -> ""

\* the demo scripts that delete their collection at the end of the live run
DeletesAtEnd == {"06_qdrant_integration", "mcp_demo"}

\* the demo scripts that go on with a collection that exists already
ToleratesExisting == {"01_basic_embeddings", "02_minicoil", "03_splade", "04_colbert",
                      "05_reranking", "06_qdrant_integration"}

\* collections of other users of the store
UserCollections == {"Products", "MY_TEST_DATA", "demo"}

\* the collections the store can hold, in the order in which it lists them
AllCollections ==
    <<"MY_TEST_DATA", "Products", "demo", "fastembed_demo_basic_embeddings",
      "fastembed_demo_colbert", "fastembed_demo_integration", "fastembed_demo_minicoil",
      "fastembed_demo_reranking", "fastembed_demo_splade", "mcp_demo_collection">>

Reverse(seq) == [i \in DOMAIN seq |-> seq[Len(seq) + 1 - i]]

\* client.get_collections().collections, by name
Listing(collections, descending) ==
    SelectSeq(IF descending THEN Reverse(AllCollections) ELSE AllCollections,
              LAMBDA n : n \in collections)

\* the body of "for collection in collections.collections" for one collection:
\* delete it when is_demo, and count; a delete that raises is printed and the
\* loop goes on
cleanup_step(collection_name, failing, acc) ==
    IF is_demo(collection_name)
    THEN IF collection_name \in failing
         THEN [acc EXCEPT !.processed = Append(@, collection_name),
                          !.failed = Append(@, collection_name)]
         ELSE [acc EXCEPT !.processed = Append(@, collection_name),
                          !.collections = @ \ {collection_name},
                          !.deleted_count = @ + 1]
    ELSE [acc EXCEPT !.processed = Append(@, collection_name), !.kept_count = @ + 1]

\* the loop of cleanup_collections leaving at the first delete that raises
RECURSIVE cleanup_loop_stopping(_, _, _)
cleanup_loop_stopping(listed, failing, acc) ==
    IF Len(listed) = 0 THEN acc
    ELSE IF is_demo(Head(listed)) /\ Head(listed) \in failing
    THEN cleanup_step(Head(listed), failing, acc)
    ELSE cleanup_loop_stopping(Tail(listed), failing, cleanup_step(Head(listed), failing, acc))

\* the loop of cleanup_collections over the listed collections
RECURSIVE cleanup_loop(_, _, _)
cleanup_loop(listed, failing, acc) ==
    IF Len(listed) = 0 THEN acc
    ELSE cleanup_loop(Tail(listed), failing, cleanup_step(Head(listed), failing, acc))

\* what cleanup_collections leaves: the store, and what its summary prints
cleanup_summary(before, listed, acc) ==
    [collections |-> acc.collections,
     cleaned |-> [outcome |-> "summary", before |-> before, listed |-> listed,
                  processed |-> acc.processed, failed |-> acc.failed,
                  deleted_count |-> acc.deleted_count, kept_count |-> acc.kept_count]]

cleanup_listed(collections, listed, failing) ==
    cleanup_summary(collections, listed,
                    cleanup_loop(listed, failing,
                                 [collections |-> collections, processed |-> <<>>,
                                  failed |-> <<>>, deleted_count |-> 0, kept_count |-> 0]))

\* cleanup_collections(): ImportError and any other exception of the
\* connection or of the listing end it with a message; get_cluster_info is
\* tried and its failure is passed over, it changes nothing
cleanup_collections(collections, env) ==
    IF ~env.importable
    THEN [collections |-> collections,
          cleaned |-> [NoCleanup EXCEPT !.outcome = "no_client", !.before = collections]]
    ELSE IF ~env.up
    THEN [collections |-> collections,
          cleaned |-> [NoCleanup EXCEPT !.outcome = "failed", !.before = collections]]
    ELSE cleanup_listed(collections, Listing(collections, env.descending), env.failing)

\* a demo script that deletes its collection at the end of its live run
\* whichever script it is
DemoScript_tidy(folder_name, collections, live) ==
    IF DemoCollection(folder_name) = "" \/ live = "none"
    THEN [collections |-> collections,
          demo |-> [folder |-> folder_name, live |-> live, created |-> ""]]
    ELSE [collections |-> IF live = "completed"
                          THEN collections \ {DemoCollection(folder_name)}
                          ELSE collections \cup {DemoCollection(folder_name)},
          demo |-> [folder |-> folder_name, live |-> live,
                    created |-> IF DemoCollection(folder_name) \in collections
                                THEN "" ELSE DemoCollection(folder_name)]]

\* the live run of a demo script: "none" when there is no live run (no store,
\* no client library), "failed" when it ends in the except clause after its
\* collection is there, "completed" when it reaches its end.  created is the
\* collection the run created ("" when it created none).
DemoScript(folder_name, collections, live) ==
    IF DemoCollection(folder_name) = "" \/ live = "none"
    THEN [collections |-> collections,
          demo |-> [folder |-> folder_name, live |-> live, created |-> ""]]
    ELSE IF DemoCollection(folder_name) \in collections /\ folder_name \notin ToleratesExisting
    THEN [collections |-> collections,
          demo |-> [folder |-> folder_name, live |-> "failed", created |-> ""]]
    ELSE [collections |-> IF live = "completed" /\ folder_name \in DeletesAtEnd
                          THEN collections \ {DemoCollection(folder_name)}
                          ELSE collections \cup {DemoCollection(folder_name)},
          demo |-> [folder |-> folder_name, live |-> live,
                    created |-> IF DemoCollection(folder_name) \in collections
                                THEN "" ELSE DemoCollection(folder_name)]]

\* run_demo(): nothing is run when demo.py is not found or the subprocess
\* cannot be started
run_demo(folder_name, collections, env) ==
    IF ~env.exists \/ ~env.spawns
    THEN [collections |-> collections, demo |-> NoDemo]
    ELSE DemoScript(folder_name, collections, env.live)

\* what the environment of one pass of the loop decides
CleanupEnvs ==
    {[importable |-> i, up |-> u, descending |-> d, failing |-> f,
      exists |-> TRUE, spawns |-> TRUE, live |-> "none"] :
        i \in BOOLEAN, u \in BOOLEAN, d \in BOOLEAN,
        f \in {{}, {"fastembed_demo_basic_embeddings"}, {"MY_TEST_DATA", "mcp_demo_collection"},
               Range(AllCollections)}}

DemoEnvs ==
    {[importable |-> TRUE, up |-> TRUE, descending |-> FALSE, failing |-> {},
      exists |-> e, spawns |-> s, live |-> l] :
        e \in BOOLEAN, s \in BOOLEAN, l \in {"none", "failed", "completed"}}

\* the lines entered at "Enter your choice (1-10): "
ChoiceInputs == {"1", "6", "7", "9", "10", " 10 ", "help", "HELP", "0", "11", ""}

\* how the handling of a choice ends: it returns, it raises an exception, or
\* the user interrupts it
Endings == {"returns", "raises", "interrupted"}

\* where the loop is after the handling of a choice
After(ending) ==
    CASE ending = "returns" -> [pc |-> "pause", why |-> ""]
      [] ending = "raises" -> [pc |-> "error_pause", why |-> ""]
      [] ending = "interrupted" -> [pc |-> "ended", why |-> "interrupt"]

\* the branches of run() for a choice (lines 303-316)
after_cleanup(m, choice, r, ending) ==
    [pc |-> After(ending).pc, why |-> After(ending).why, collections |-> r.collections,
     choice |-> choice, did |-> <<"cleanup">>, demo |-> NoDemo, cleaned |-> r.cleaned]

after_demo(m, choice, r, ending) ==
    [pc |-> After(ending).pc, why |-> After(ending).why, collections |-> r.collections,
     choice |-> choice, did |-> <<"run_demo">>, demo |-> r.demo, cleaned |-> NoCleanup]

after_other(m, choice, what, ending) ==
    [pc |-> After(ending).pc, why |-> After(ending).why, collections |-> m.collections,
     choice |-> choice, did |-> <<what>>, demo |-> NoDemo, cleaned |-> NoCleanup]

after_exit(m, choice) ==
    [pc |-> "ended", why |-> "exit", collections |-> m.collections,
     choice |-> choice, did |-> <<>>, demo |-> NoDemo, cleaned |-> NoCleanup]

\* run() taking every number for a demo: "0" and "11" run the first demo
handle_choice_any_number(m, choice, env, ending) ==
    IF choice \in DOMAIN demo_folders \cup {"0", "11"}
    THEN IF choice \in {"0", "11"}
         THEN after_demo(m, choice, run_demo("01_basic_embeddings", m.collections, env), ending)
         ELSE IF demo_folders[choice][1] = "cleanup"
         THEN after_cleanup(m, choice, cleanup_collections(m.collections, env), ending)
         ELSE IF demo_folders[choice][1] = "exit"
         THEN after_exit(m, choice)
         ELSE after_demo(m, choice, run_demo(demo_folders[choice][1], m.collections, env), ending)
    ELSE IF lower(choice) = "help"
    THEN after_other(m, choice, "show_project_structure", ending)
    ELSE after_other(m, choice, "invalid", ending)

handle_choice(m, choice, env, ending) ==
    IF choice \in DOMAIN demo_folders
    THEN IF demo_folders[choice][1] = "cleanup"
         THEN after_cleanup(m, choice, cleanup_collections(m.collections, env), ending)
         ELSE IF demo_folders[choice][1] = "exit"
         THEN after_exit(m, choice)
         ELSE after_demo(m, choice, run_demo(demo_folders[choice][1], m.collections, env), ending)
    ELSE IF lower(choice) = "help"
    THEN after_other(m, choice, "show_project_structure", ending)
    ELSE after_other(m, choice, "invalid", ending)

\* the menu is shown and the loop waits for the choice (line 301)
Shown(m) ==
    [pc |-> "menu", why |-> "", collections |-> m.collections, choice |-> "",
     did |-> <<>>, demo |-> NoDemo, cleaned |-> NoCleanup]

\* main(): run() is entered and shows the menu for the first time
Start ==
    /\ menu.pc = "constructed"
    /\ menu' = Shown(menu)
    /\ UNCHANGED <<qdrant_client, constructed, running, store, pre, call, resp, log,
                   last_upsert, last_create, twin, flight, tools>>

\* a line is entered at the menu and the choice is handled
Choose ==
    /\ menu.pc = "menu"
    /\ \E line \in ChoiceInputs, ending \in Endings :
        \E env \in (IF strip(line) = "9" THEN CleanupEnvs ELSE DemoEnvs) :
            menu' = handle_choice(menu, strip(line), env, ending)
    /\ UNCHANGED <<qdrant_client, constructed, running, store, pre, call, resp, log,
                   last_upsert, last_create, twin, flight, tools>>

\* KeyboardInterrupt at an input(): at the menu and at the pause of line 318
\* the except clause breaks the loop; at the pause of line 325 it leaves run()
InterruptInput ==
    /\ menu.pc \in {"menu", "pause", "error_pause"}
    /\ menu' = [menu EXCEPT !.pc = "ended", !.why = "interrupt"]
    /\ UNCHANGED <<qdrant_client, constructed, running, store, pre, call, resp, log,
                   last_upsert, last_create, twin, flight, tools>>

\* EOFError at an input(): at the menu and at the pause of line 318 it is
\* caught by "except Exception" (line 323); at the pause of line 325, inside
\* that clause, nothing catches it and it leaves run()
EndOfInput ==
    /\ menu.pc \in {"menu", "pause", "error_pause"}
    /\ menu' = IF menu.pc = "error_pause"
               THEN [menu EXCEPT !.pc = "ended", !.why = "eof"]
               ELSE [menu EXCEPT !.pc = "error_pause"]
    /\ UNCHANGED <<qdrant_client, constructed, running, store, pre, call, resp, log,
                   last_upsert, last_create, twin, flight, tools>>

\* Enter at "Press Enter to continue...": the loop shows the menu again
Continue ==
    /\ menu.pc \in {"pause", "error_pause"}
    /\ menu' = Shown(menu)
    /\ UNCHANGED <<qdrant_client, constructed, running, store, pre, call, resp, log,
                   last_upsert, last_create, twin, flight, tools>>

\* another user of the store creates a collection of theirs
UserCreates ==
    /\ menu.pc = "menu"
    /\ \E n \in UserCollections \ menu.collections :
            menu' = [menu EXCEPT !.collections = @ \cup {n}]
    /\ UNCHANGED <<qdrant_client, constructed, running, store, pre, call, resp, log,
                   last_upsert, last_create, twin, flight, tools>>

\* mcp_demo.py is run on its own while the menu waits
RunMcpDemo ==
    /\ menu.pc = "menu"
    /\ \E live \in {"none", "failed", "completed"} :
        \E r \in {DemoScript("mcp_demo", menu.collections, live)} :
            menu' = [menu EXCEPT !.collections = r.collections, !.demo = r.demo,
                                 !.cleaned = NoCleanup, !.did = <<>>, !.choice = ""]
    /\ UNCHANGED <<qdrant_client, constructed, running, store, pre, call, resp, log,
                   last_upsert, last_create, twin, flight, tools>>

NextMenu ==
    \/ Start
    \/ Choose
    \/ InterruptInput
    \/ EndOfInput
    \/ Continue
    \/ UserCreates
    \/ RunMcpDemo

SpecMenu == Init /\ [][NextMenu]_vars

(***************************************************************************)
(* What the schemas of handle_list_tools declare, and the prefixes of the  *)
(* plain-text answers, for the properties below.                           *)
(***************************************************************************)
\* "required" of each inputSchema
RequiredInputs ==
    [n \in ToolNames |->
        CASE n = "create_collection" -> {"name", "vector_size"}
          [] n \in {"delete_collection", "get_collection_info"} -> {"name"}
          [] n = "upsert_vectors" -> {"collection", "vectors"}
          [] n = "search_vectors" -> {"collection", "query_vector"}
          [] n \in {"delete_vectors", "get_vectors"} -> {"collection", "ids"}
          [] OTHER -> {}]

\* "required" of the items of upsert_vectors' vectors
ItemRequired == {"id", "vector"}

\* the literal prefixes of the f-strings the except clauses and the else
\* branch return
ErrorPrefixes ==
    {"Unknown tool: ", "Error: ", "Error listing collections: ",
     "Error creating collection: ", "Error deleting collection: ",
     "Error getting collection info: ", "Error upserting vectors: ",
     "Error searching vectors: ", "Error deleting vectors: ",
     "Error getting vectors: "}

\* the call that has returned leaves out an input its schema requires
OmitsRequired(c) ==
    \/ \E k \in RequiredInputs[c.name] : ~Has(c.args, k)
    \/ /\ c.name = "upsert_vectors"
       /\ Has(c.args, "vectors")
       /\ \E i \in DOMAIN c.args["vectors"] :
            \E k \in ItemRequired : ~Has(c.args["vectors"][i], k)

\* the call that has returned supplies an input of another type than declared:
\* a vector_size that is no positive integer, ids that is no list
Malformed(c) ==
    \/ /\ c.name = "create_collection"
       /\ Has(c.args, "vector_size")
       /\ c.args["vector_size"] < 1
    \/ /\ c.name \in {"delete_vectors", "get_vectors"}
       /\ Has(c.args, "ids")
       /\ c.args["ids"].t # "list"

\* a JSON answer holds something besides status and message
CarriesData(r) == r.keys \ {"status", "message"} # {}

\* a numeral string: one or more of the digits 0-9
Numeral(id) == id.t = "str" /\ Len(id.s) > 0 /\ \A i \in 1..Len(id.s) : id.s[i] \in AsciiDigits

\* what the store is to be given for an id: the integer of a numeral string,
\* any other id as it is
ExpectedId(id) == IF Numeral(id) THEN Int_(IntValue(id.s)) ELSE id

NonIncreasing(rs) == \A i \in 1..(Len(rs) - 1) : rs[i].score >= rs[i + 1].score

NonDecreasing(rs) == \A i \in 1..(Len(rs) - 1) : rs[i].score <= rs[i + 1].score

(***************************************************************************)
(* Properties.  A state with call.made is the state in which a call of     *)
(* handle_call_tool has returned: call is what was asked, resp the answer, *)
(* log the store methods invoked, pre and store the store before and after.*)
(***************************************************************************)

\* C1: for every name that is not exactly one of the nine catalogue names and
\* any arguments, handle_call_tool answers with an error that names the
\* requested operation, and enters no handler.  (The answer is taken as an
\* error when it is the plain-text message; its form is the subject of C5.)
C1_UnknownNamed ==
    (call.made /\ call.name \notin ToolNames) =>
        /\ resp.kind = "text"
        /\ resp.text = <<"Unknown tool: ", call.name>>
        /\ call.handler = ""
        /\ log = <<>>

\* C2: whatever the name, the arguments and the behaviour of the store
\* (any method raising, QdrantClient(...) raising), handle_call_tool returns
\* an answer: no exception leaves it.
C2_NothingEscapes ==
    call.made => resp.kind \in {"json", "text"}

\* C2, its case: QdrantClient(...) raised inside the call and the call answered
C2_Witness ==
    /\ call.made
    /\ qdrant_client = 0
    /\ constructed = 0
    /\ resp.kind = "text"
    /\ resp.text[1] = "Error: "

\* C3: a call of a catalogue operation that leaves out an input the schema
\* requires is answered with an error message, no store method is invoked
\* during the call and the store is left as it was; when a top-level input is
\* missing and the handler was entered, the message names a missing input.
C3_MissingRequiredRejected ==
    (call.made /\ call.name \in ToolNames /\ OmitsRequired(call)) =>
        /\ resp.kind = "text"
        /\ resp.text[1] \in ErrorPrefixes
        /\ log = <<>>
        /\ store = pre
        /\ (call.handler # "" /\ RequiredInputs[call.name] \ DOMAIN call.args # {}) =>
                \E k \in RequiredInputs[call.name] \ DOMAIN call.args : k \in Range(resp.text)

\* C3, its case: create_collection without vector_size, rejected by its handler
C3_Witness ==
    /\ call.made
    /\ call.handler = "handle_create_collection"
    /\ Has(call.args, "name")
    /\ ~Has(call.args, "vector_size")
    /\ resp.text = <<"Error creating collection: ", "'", "vector_size", "'">>
    /\ log = <<>>

\* C4: a call whose input is not of the declared type (a vector_size that is
\* not a positive integer, ids that is not a list) is answered with an error
\* before the store is invoked: the value never reaches a store method.
C4_MalformedRejected ==
    (call.made /\ call.handler # "" /\ Malformed(call)) =>
        /\ resp.kind = "text"
        /\ log = <<>>

\* C5 as the specification words it: every answer is an envelope with a status
\* of success or error, that carries data iff the status is success and a
\* message iff the status is error.
C5_UniformEnvelope ==
    call.made =>
        /\ resp.kind = "json"
        /\ "status" \in resp.keys
        /\ resp.status \in {"success", "error"}
        /\ CarriesData(resp) <=> resp.status = "success"
        /\ "message" \in resp.keys <=> resp.status = "error"

\* C5, amended: every answer is either a plain-text error message or a JSON
\* object.  A failure (unknown name, QdrantClient(...) raising, a missing
\* input, any exception in a handler other than health_check's listing) is the
\* plain text, beginning with one of the fixed prefixes and carrying neither
\* status nor data.  Every other outcome is a JSON object: its status, where it
\* has one, is success, healthy or unhealthy; list_collections and
\* get_collection_info carry no status; create_collection, delete_collection,
\* upsert_vectors, delete_vectors and health_check carry a message as well.
C5_ResponseShapes ==
    call.made =>
        \/ /\ resp.kind = "text"
           /\ resp.text[1] \in ErrorPrefixes
           /\ resp.keys = {}
           /\ \/ call.handler = ""
              \/ log = <<>>
              \/ log[Len(log)].raised
        \/ /\ resp.kind = "json"
           /\ call.handler # ""
           /\ "status" \in resp.keys => resp.status \in {"success", "healthy", "unhealthy"}
           /\ "status" \notin resp.keys <=> call.name \in {"list_collections", "get_collection_info"}
           /\ "message" \in resp.keys <=>
                call.name \in {"create_collection", "delete_collection", "upsert_vectors",
                               "delete_vectors", "health_check"}
           /\ resp.status \in {"healthy", "unhealthy"} <=> call.name = "health_check"
           /\ log # <<>>
           /\ log[Len(log)].raised <=> resp.status = "unhealthy"

\* C5, its case: a successful answer that has no status at all
C5_Witness ==
    /\ call.made
    /\ call.name = "get_collection_info"
    /\ resp.kind = "json"
    /\ "status" \notin resp.keys
    /\ CarriesData(resp)

\* C6: health_check answers a listing that raised with a JSON object of status
\* "unhealthy", never with an error message; when the listing returns it
\* answers "healthy" with the number of collections in the store.
C6_HealthCheck ==
    (call.made /\ call.handler = "handle_health_check") =>
        /\ resp.kind = "json"
        /\ Len(log) = 1
        /\ log[1].m = "get_collections"
        /\ log[1].raised => resp.status = "unhealthy"
        /\ ~log[1].raised =>
                /\ resp.status = "healthy"
                /\ resp.data.collections_count = Cardinality(Existing(store))
        /\ store = pre

\* C6, its case: the listing raised while a collection exists
C6_Witness ==
    /\ call.made
    /\ call.handler = "handle_health_check"
    /\ log[1].raised
    /\ resp.status = "unhealthy"
    /\ Existing(store) # {}

\* C7: the three places normalize alike: for ids that is a list (delete_vectors,
\* get_vectors) and for points that each have id and vector (upsert_vectors),
\* the store is given, in the original order, the integer for every numeral
\* string and every other id unchanged.
C7_SameNormalization ==
    /\ (/\ call.made
        /\ call.handler \in {"handle_delete_vectors", "handle_get_vectors"}
        /\ Has(call.args, "collection")
        /\ Has(call.args, "ids")
        /\ call.args["ids"].t = "list") =>
            /\ Len(log) = 1
            /\ log[1].args[2] =
                 [i \in DOMAIN call.args["ids"].v |-> ExpectedId(call.args["ids"].v[i])]
    /\ (/\ call.made
        /\ call.handler = "handle_upsert_vectors"
        /\ Has(call.args, "collection")
        /\ Has(call.args, "vectors")
        /\ \A i \in DOMAIN call.args["vectors"] :
                \A k \in ItemRequired : Has(call.args["vectors"][i], k)) =>
            /\ Len(log) = 1
            /\ [i \in DOMAIN log[1].args[2] |-> log[1].args[2][i].id] =
                 [i \in DOMAIN call.args["vectors"] |-> ExpectedId(call.args["vectors"][i]["id"])]

LimitOf(c) == IF Has(c.args, "limit") THEN c.args["limit"] ELSE 10

\* C9 as the specification words it: a successful search_vectors with limit N
\* (10 when omitted) answers at most N results, with scores non-increasing
\* from first to last, and a count that is the length of the results.
C9_Descending ==
    (call.made /\ call.handler = "handle_search_vectors" /\ resp.kind = "json") =>
        /\ Len(resp.data.results) <= LimitOf(call)
        /\ NonIncreasing(resp.data.results)
        /\ resp.data.count = Len(resp.data.results)

\* C9, amended: a successful search_vectors with limit N (10 when omitted)
\* answers at most N results, best first in the metric of the collection -
\* scores non-increasing for Cosine and Dot, non-decreasing for Euclid, whose
\* scores are distances - and a count that is the length of the results.
C9_BestFirst ==
    (call.made /\ call.handler = "handle_search_vectors" /\ resp.kind = "json") =>
        /\ Len(resp.data.results) <= LimitOf(call)
        /\ IF pre[call.args["collection"]].distance = "EUCLID"
           THEN NonDecreasing(resp.data.results)
           ELSE NonIncreasing(resp.data.results)
        /\ resp.data.count = Len(resp.data.results)

\* C9, its case: two results of different scores from a Euclid collection
C9_Witness ==
    /\ call.made
    /\ call.handler = "handle_search_vectors"
    /\ resp.kind = "json"
    /\ pre[call.args["collection"]].distance = "EUCLID"
    /\ Len(resp.data.results) = 2
    /\ resp.data.results[1].score < resp.data.results[2].score

C11_NoRetry ==
    call.made =>
        /\ Len(log) <= 1
        /\ (Len(log) = 1 /\ log[1].raised) =>
                /\ resp.kind = "text" \/ resp.status = "unhealthy"
                /\ store = pre

\* C11, its case: client.delete raised and delete_vectors answered the error
C11_Witness ==
    /\ call.made
    /\ call.handler = "handle_delete_vectors"
    /\ Len(log) = 1
    /\ log[1].raised
    /\ resp.kind = "text"
    /\ resp.text[1] = "Error deleting vectors: "

\* "enum" of distance in the inputSchema of create_collection
DistanceEnum == {"Cosine", "Euclid", "Dot"}

\* C13: create_collection with the name of a collection that exists in the
\* store is answered with an error, not with a success, and the collection
\* keeps its configuration and its points.
C13_NameCollision ==
    (/\ call.made
     /\ call.handler = "handle_create_collection"
     /\ Has(call.args, "name")
     /\ pre[call.args["name"]].exists) =>
        /\ resp.kind = "text"
        /\ resp.text[1] = "Error creating collection: "
        /\ store = pre

\* C13, its case: the store refused to create over a collection that has points
C13_Witness ==
    /\ call.made
    /\ call.handler = "handle_create_collection"
    /\ Has(call.args, "name")
    /\ pre[call.args["name"]].points # {}
    /\ resp.text = <<"Error creating collection: ", "Collection ", call.args["name"],
                     " already exists!">>
    /\ store = pre

\* C14: create_collection with a distance outside the enumeration is answered
\* with an error, client.create_collection is not invoked and no collection
\* is created.
C14_InvalidMetric ==
    (/\ call.made
     /\ call.handler = "handle_create_collection"
     /\ Has(call.args, "distance")
     /\ call.args["distance"] \notin DistanceEnum) =>
        /\ resp.kind = "text"
        /\ resp.text[1] = "Error creating collection: "
        /\ log = <<>>
        /\ store = pre

\* C14, its case: name and vector_size are fine, the metric is not
C14_Witness ==
    /\ call.made
    /\ call.handler = "handle_create_collection"
    /\ Has(call.args, "name")
    /\ Has(call.args, "vector_size")
    /\ call.args["vector_size"] >= 1
    /\ Has(call.args, "distance")
    /\ resp.text = <<"Error creating collection: ", "'", "Manhattan", "'">>
    /\ ~pre[call.args["name"]].exists

\* the metric a create_collection call asks for: cosine when it names none
AskedDistance(a) == IF Has(a, "distance") THEN a["distance"] ELSE "Cosine"

\* C15: a create_collection that succeeds echoes name, vector_size and
\* distance (Cosine when omitted) and the collection is created with them; a
\* get_collection_info of that name as the next call reports that vector size
\* and that metric (unless the store cannot be reached).
C15_CreateThenInfo ==
    /\ (call.made /\ call.handler = "handle_create_collection" /\ resp.kind = "json") =>
            /\ resp.data = [name |-> call.args["name"],
                            vector_size |-> call.args["vector_size"],
                            distance |-> AskedDistance(call.args)]
            /\ store[call.args["name"]].exists
            /\ store[call.args["name"]].size = call.args["vector_size"]
            /\ store[call.args["name"]].distance = distance_map[AskedDistance(call.args)]
    /\ (/\ call.made
        /\ call.handler = "handle_get_collection_info"
        /\ last_create.made
        /\ call.args = ("name" :> last_create.args["name"])) =>
            \/ /\ Len(log) = 1
               /\ log[1].exc = "ResponseHandlingException"
            \/ /\ resp.kind = "json"
               /\ resp.data.name = last_create.args["name"]
               /\ resp.data.size = last_create.args["vector_size"]
               /\ resp.data.distance = AskedDistance(last_create.args)

\* C15, its case: created without a distance, then asked for its info
C15_Witness ==
    /\ call.made
    /\ call.handler = "handle_get_collection_info"
    /\ last_create.made
    /\ ~Has(last_create.args, "distance")
    /\ call.args = ("name" :> last_create.args["name"])
    /\ resp.kind = "json"
    /\ resp.data.distance = "Cosine"

\* the call that has returned is a get_vectors, with ids that is a list, on a
\* collection that existed
GetOnExisting(c) ==
    /\ c.made
    /\ c.handler = "handle_get_vectors"
    /\ Has(c.args, "collection")
    /\ Has(c.args, "ids")
    /\ c.args["ids"].t = "list"
    /\ pre[c.args["collection"]].exists

\* an id that names a point of the store: an unsigned integer, also written as
\* a numeral string
NamesPoint(id) == Numeral(id) \/ (id.t = "int" /\ id.v >= 0)

\* the records of the requested ids that exist in the collection
ExistingRequested(c) ==
    {[id |-> p.id, vector |-> p.vector, payload |-> p.payload] :
        p \in {q \in pre[c.args["collection"]].points :
                \E i \in DOMAIN c.args["ids"].v : q.id = ExpectedId(c.args["ids"].v[i])}}

\* the answer is a success that holds exactly the given records, once each,
\* and counts them
AnswersRecords(r, records) ==
    /\ r.kind = "json"
    /\ r.status = "success"
    /\ Range(r.data.vectors) = records
    /\ Len(r.data.vectors) = Cardinality(records)
    /\ r.data.count = Len(r.data.vectors)

\* C16 as the specification words it: get_vectors on an existing collection
\* answers a success with exactly the records of the requested ids that
\* exist; ids that do not exist are omitted without an error; count is the
\* number of records.  (A store that cannot be reached is left aside.)
C16_MissingOmitted ==
    GetOnExisting(call) =>
        \/ /\ Len(log) = 1
           /\ log[1].exc = "ResponseHandlingException"
        \/ AnswersRecords(resp, ExistingRequested(call))

\* C16, amended: the same, for a list of ids that each name a point (unsigned
\* integers, also written as numeral strings); an entry that names no point
\* ("abc", "", "-1") makes the whole call fail with an error and no record is
\* returned.
C16_KnownIdsOmitted ==
    GetOnExisting(call) =>
        \/ /\ Len(log) = 1
           /\ log[1].exc = "ResponseHandlingException"
        \/ /\ \A i \in DOMAIN call.args["ids"].v : NamesPoint(call.args["ids"].v[i])
           /\ AnswersRecords(resp, ExistingRequested(call))
        \/ /\ \E i \in DOMAIN call.args["ids"].v : ~NamesPoint(call.args["ids"].v[i])
           /\ resp.kind = "text"
           /\ resp.text[1] = "Error getting vectors: "

\* C16, its case: two ids asked for, one of them in the collection
C16_Witness ==
    /\ GetOnExisting(call)
    /\ Len(call.args["ids"].v) = 2
    /\ \A i \in DOMAIN call.args["ids"].v : NamesPoint(call.args["ids"].v[i])
    /\ ExpectedId(call.args["ids"].v[1]) # ExpectedId(call.args["ids"].v[2])
    /\ resp.kind = "json"
    /\ resp.data.count = 1

\* C17: the count a successful delete_vectors reports is the number of points
\* the call removed from the collection, for every list of ids.
C17_DeletedCount ==
    (call.made /\ call.handler = "handle_delete_vectors" /\ resp.kind = "json") =>
        resp.data.deleted =
            Cardinality(pre[call.args["collection"]].points)
            - Cardinality(store[call.args["collection"]].points)

\* C18: delete_collection for a name that is no collection of the store is
\* answered with an error; the success confirmation is answered only when a
\* collection of that name was removed.
C18_DeleteMissing ==
    (call.made /\ call.handler = "handle_delete_collection" /\ Has(call.args, "name")) =>
        /\ ~pre[call.args["name"]].exists => resp.kind = "text"
        /\ resp.kind = "json" =>
                /\ pre[call.args["name"]].exists
                /\ ~store[call.args["name"]].exists

\* C19: when the store method a call invoked raised, the answer holds the
\* message of the exception verbatim: the error text is the handler's prefix
\* followed by the message, and so is the message of health_check's
\* unhealthy answer.
C19_MessageVerbatim ==
    (call.made /\ Len(log) = 1 /\ log[1].raised) =>
        IF call.handler = "handle_health_check"
        THEN /\ resp.kind = "json"
             /\ resp.data.message = <<"Qdrant connection failed: ">> \o log[1].msg
        ELSE /\ resp.kind = "text"
             /\ resp.text[1] \in ErrorPrefixes
             /\ Tail(resp.text) = log[1].msg
             /\ log[1].msg # <<>>

\* C19, its case: the store refused a vector of the wrong dimension
C19_Witness ==
    /\ call.made
    /\ call.handler = "handle_upsert_vectors"
    /\ Len(log) = 1
    /\ log[1].raised
    /\ resp.text = <<"Error upserting vectors: ", "Vector dimension error">>

\* an answer without its clock reading
Untimed(r) == IF "timestamp" \in r.keys THEN [r EXCEPT !.data.timestamp = 0] ELSE r

StepsInOrder ==
    \A c \in Callers :
        /\ flight[c].steps \in {<<>>, <<"extract">>, <<"extract", "invoke">>,
                                <<"extract", "invoke", "respond">>,
                                <<"extract", "respond">>}
        /\ flight[c].resp.kind # "none" => flight[c].pc = "done"

\* while a call is part-way through its handler no other call takes a step
NoStepOfAnother ==
    \A c \in Callers : \A d \in Callers \ {c} :
        flight[c].pc \in PartWay =>
            \/ flight'[d].steps = flight[d].steps
            \/ flight'[d].pc = "idle"

\* C12: with several calls in flight each call is one flow: its steps -
\* extraction and validation of the arguments, the store call, the response -
\* are taken in that order, the response exists only when they are done, and
\* from its first step to its response no step of another call is taken.
C12_SingleFlow == [](StepsInOrder) /\ [][NoStepOfAnother]_vars

\* C12, its case: a call has made its store call and has not answered yet,
\* while another call is in flight
C12_Witness ==
    \E c \in Callers : \E d \in Callers \ {c} :
        /\ flight[c].pc = "invoked"
        /\ flight[d].pc = "pending"

\* C21: list_collections, when the store answers the listing, returns the
\* names of exactly the collections in the store, each once, and a count
\* equal to the number of names; when the store cannot be reached (the
\* listing raises, or no client could be built) it returns an error text.
C21_ListsExactly ==
    (call.made /\ call.name = "list_collections") =>
        /\ (call.used # 0) =>
                /\ call.handler = "handle_list_collections"
                /\ Len(log) = 1
                /\ log[1].m = "get_collections"
        /\ (call.used # 0 /\ ~log[1].raised) =>
                /\ resp.kind = "json"
                /\ resp.keys = {"collections", "count"}
                /\ Range(resp.data.collections) = Existing(store)
                /\ Len(resp.data.collections) = Cardinality(Existing(store))
                /\ resp.data.count = Len(resp.data.collections)
        /\ (call.used # 0 /\ log[1].raised) =>
                /\ resp.kind = "text"
                /\ resp.text = <<"Error listing collections: ">> \o log[1].msg
        /\ (call.used = 0) =>
                /\ resp.kind = "text"
                /\ resp.text[1] = "Error: "

\* C21, its case: the listing of a store that holds a collection
C21_Witness ==
    /\ call.made
    /\ call.name = "list_collections"
    /\ resp.kind = "json"
    /\ resp.data.collections = <<"c1">>
    /\ resp.data.count = 1
    /\ Existing(store) = {"c1"}

\* the nine handlers of mcp_server.py
Handlers == {"handle_list_collections", "handle_create_collection",
             "handle_delete_collection", "handle_get_collection_info",
             "handle_upsert_vectors", "handle_search_vectors",
             "handle_delete_vectors", "handle_get_vectors", "handle_health_check"}

\* a listing holds nine names, all different, and the chain of
\* handle_call_tool enters a handler for the names of the listing and for no
\* other name
CatalogueAgrees ==
    tools # <<>> =>
        /\ Len(tools) = 9
        /\ \A i, j \in DOMAIN tools : tools[i].name = tools[j].name => i = j
        /\ (call.made /\ call.used # 0) =>
                /\ call.name \in Advertised(tools) => call.handler \in Handlers
                /\ call.name \notin Advertised(tools) =>
                        /\ call.handler = ""
                        /\ resp.text = <<"Unknown tool: ", call.name>>
                        /\ log = <<>>

\* a later listing is the listing the client already holds
SameListing == tools # <<>> => tools' = tools

\* C22: the catalogue and the dispatcher agree: handle_list_tools lists nine
\* names, all different and the same at every listing; once the client is at
\* hand, handle_call_tool enters one handler for each listed name, never its
\* else branch, and enters no handler for a name that is not listed.
C22_CatalogueAndDispatcher == [](CatalogueAgrees) /\ [][SameListing]_vars

\* C22, its cases: after a listing, a listed name reached its handler
C22_Witness ==
    /\ tools # <<>>
    /\ call.made
    /\ call.name = "health_check"
    /\ call.handler = "handle_health_check"
    /\ qdrant_client # 0

\* an id is forwarded as an integer, or as it was supplied
ForwardedAsIntOrSame(sent, id) == sent.t = "int" \/ sent = id

\* C23: normalization makes no call fail: for ids that is a list of strings
\* and integers (delete_vectors, get_vectors) and for points that each have
\* id and vector (upsert_vectors) the store method is invoked, and every id it
\* is given is an integer or the supplied id unchanged.
C23_NormalizationNeverFails ==
    /\ (/\ call.made
        /\ call.handler \in {"handle_delete_vectors", "handle_get_vectors"}
        /\ Has(call.args, "collection")
        /\ Has(call.args, "ids")
        /\ call.args["ids"].t = "list") =>
            /\ Len(log) = 1
            /\ log[1].m \in {"delete", "retrieve"}
            /\ Len(log[1].args[2]) = Len(call.args["ids"].v)
            /\ \A i \in DOMAIN call.args["ids"].v :
                    ForwardedAsIntOrSame(log[1].args[2][i], call.args["ids"].v[i])
    /\ (/\ call.made
        /\ call.handler = "handle_upsert_vectors"
        /\ Has(call.args, "collection")
        /\ Has(call.args, "vectors")
        /\ \A i \in DOMAIN call.args["vectors"] :
                \A k \in ItemRequired : Has(call.args["vectors"][i], k)) =>
            /\ Len(log) = 1
            /\ log[1].m = "upsert"
            /\ Len(log[1].args[2]) = Len(call.args["vectors"])
            /\ \A i \in DOMAIN call.args["vectors"] :
                    ForwardedAsIntOrSame(log[1].args[2][i].id, call.args["vectors"][i]["id"])

\* upsert_vectors was given a list of points that each have id and vector
WellFormedUpsert(c) ==
    /\ c.made
    /\ c.handler = "handle_upsert_vectors"
    /\ Has(c.args, "collection")
    /\ Has(c.args, "vectors")
    /\ \A i \in DOMAIN c.args["vectors"] : \A k \in ItemRequired : Has(c.args["vectors"][i], k)

\* the points the store was given are forwarded with pairwise different ids
\* and, when the upsert succeeded, each of them is in the collection
NoneOverwritten ==
    /\ \A i, j \in DOMAIN log[1].args[2] :
            log[1].args[2][i].id = log[1].args[2][j].id => i = j
    /\ ~log[1].raised =>
            \A i \in DOMAIN log[1].args[2] :
                log[1].args[2][i] \in store[call.args["collection"]].points

NotNormalizable(id) == id.t = "str" /\ IsDigit(id.s) /\ ~Numeral(id)

\* an element of vectors that lacks id or vector, or whose id cannot be
\* normalized
MalformedElement(e) ==
    \/ \E k \in ItemRequired : ~Has(e, k)
    \/ Has(e, "id") /\ NotNormalizable(e["id"])

\* C25: upsert_vectors is all-or-nothing: when an element of vectors is
\* malformed the store's upsert is not invoked, the store is as it was, so
\* that no point of the call is stored, and the answer is the error text;
\* when the call succeeds the number it reports is the length of vectors.
C25_AllOrNothing ==
    (/\ call.made
     /\ call.handler = "handle_upsert_vectors"
     /\ Has(call.args, "collection")
     /\ Has(call.args, "vectors")) =>
        /\ (\E i \in DOMAIN call.args["vectors"] : MalformedElement(call.args["vectors"][i])) =>
                /\ log = <<>>
                /\ store = pre
                /\ resp.kind = "text"
                /\ resp.text[1] = "Error upserting vectors: "
        /\ resp.kind = "json" =>
                /\ resp.status = "success"
                /\ resp.data.upserted = Len(call.args["vectors"])
                /\ Len(log) = 1
                /\ Len(log[1].args[2]) = Len(call.args["vectors"])

\* C25, its case: a well-formed point followed by an element without id, for
\* a collection that exists and a store that answers
C25_Witness ==
    /\ call.made
    /\ call.handler = "handle_upsert_vectors"
    /\ Has(call.args, "collection")
    /\ call.args["collection"] \in Existing(pre)
    /\ Has(call.args, "vectors")
    /\ Len(call.args["vectors"]) = 2
    /\ ~MalformedElement(call.args["vectors"][1])
    /\ ~Has(call.args["vectors"][2], "id")
    /\ log = <<>>
    /\ store["c1"].points = {}
    /\ resp.text = <<"Error upserting vectors: ", "'", "id", "'">>

\* the operations that read, and the store methods that read
ReadOperations == {"list_collections", "get_collection_info", "search_vectors",
                   "get_vectors", "health_check"}

ReadMethods == {"get_collections", "get_collection", "search", "retrieve"}

\* C26: list_collections, get_collection_info, search_vectors, get_vectors and
\* health_check leave the store as it was, on success and on error: the
\* collections, their configurations and their points are those of before
\* the call, and no store method that writes was invoked.
C26_ReadsLeaveStore ==
    (call.made /\ call.name \in ReadOperations) =>
        /\ store = pre
        /\ \A i \in DOMAIN log : log[i].m \in ReadMethods

\* C26, its case: get_vectors returned the record of a point, and the point
\* is still in the collection
C26_Witness ==
    /\ call.made
    /\ call.name = "get_vectors"
    /\ resp.kind = "json"
    /\ Len(resp.data.vectors) = 1
    /\ \E p \in store["c1"].points : p.id = resp.data.vectors[1].id
    /\ store = pre

\* a name contains, whatever the case of its letters, one of the listed demo
\* collection names or one of the demo indicators
ContainsDemoMark(n) ==
    \/ \E i \in DOMAIN demo_collections : In(lower(demo_collections[i]), lower(n))
    \/ \E i \in DOMAIN demo_indicators : In(demo_indicators[i], lower(n))

C28_EveryCollectionOnce ==
    menu.did = <<"cleanup">> =>
        /\ menu.cleaned.outcome \in {"summary", "failed", "no_client"}
        /\ menu.cleaned.processed = menu.cleaned.listed
        /\ menu.cleaned.outcome = "summary" =>
                /\ Range(menu.cleaned.listed) = menu.cleaned.before
                /\ Len(menu.cleaned.listed) = Cardinality(menu.cleaned.before)
        /\ menu.cleaned.deleted_count + menu.cleaned.kept_count + Len(menu.cleaned.failed)
                = Len(menu.cleaned.listed)
        /\ menu.cleaned.deleted_count = Cardinality(menu.cleaned.before \ menu.collections)
        /\ Range(menu.cleaned.failed) \subseteq menu.collections

\* C28, its case: the first delete failed and a collection listed after it
\* was deleted
C28_Witness ==
    /\ menu.did = <<"cleanup">>
    /\ menu.cleaned.outcome = "summary"
    /\ Len(menu.cleaned.listed) = 3
    /\ menu.cleaned.failed = <<menu.cleaned.listed[1]>>
    /\ menu.cleaned.listed[3] \notin menu.collections
    /\ menu.cleaned.deleted_count = 1
    /\ menu.cleaned.kept_count = 1

\* C29: when a demo script that created a collection has finished its live
\* run, the collection it created is no longer in the store.
C29_CleanedAfterDemo ==
    (menu.demo.live = "completed" /\ menu.demo.created # "") =>
        menu.demo.created \notin menu.collections

\* what run() is to do for a choice: the one action the choice is mapped to
\* (none for the exit choice)
MappedAction(choice) ==
    CASE choice \in {"1", "2", "3", "4", "5", "6", "7", "8"} -> <<"run_demo">>
      [] choice = "9" -> <<"cleanup">>
      [] choice = "10" -> <<>>
      [] choice \in {"help", "HELP"} -> <<"show_project_structure">>
      [] OTHER -> <<"invalid">>

\* a pass of the loop does what its choice is mapped to and nothing else, and
\* only the exit choice ends the loop from within a pass
OneActionPerChoice ==
    /\ menu.did # <<>> =>
            /\ menu.did = MappedAction(menu.choice)
            /\ menu.demo.folder # "" => menu.demo.folder = demo_folders[menu.choice][1]
    /\ (menu.pc = "ended" /\ menu.why = "exit") => menu.choice = "10" /\ menu.did = <<>>
    /\ menu.pc \in {"pause", "error_pause"} => menu.choice # "10"

\* after a pass the loop shows the menu again, unless an input() of the pause
\* is interrupted or finds the end of the input
MenuAgain ==
    (menu.pc \in {"pause", "error_pause"} /\ menu'.pc # menu.pc) =>
        \/ menu'.pc = "menu" /\ menu'.collections = menu.collections
        \/ menu'.pc = "error_pause" /\ menu.pc = "pause"
        \/ menu'.pc = "ended" /\ menu'.why \in {"interrupt", "eof"}

\* C30 as the specification words it: the loop ends only on the exit choice
\* or a keyboard interrupt; every other pass performs at most the one action
\* of its choice, and the menu is shown again.
C30_EndsOnExitOrInterrupt ==
    /\ [](OneActionPerChoice /\ (menu.pc = "ended" => menu.why \in {"exit", "interrupt"}))
    /\ [][MenuAgain]_vars

\* C30, amended: the loop ends on the exit choice, on a keyboard interrupt,
\* and on the end of the input met at the pause of the except clause, where
\* EOFError leaves run(); every other pass performs at most the one action of
\* its choice, and the menu is shown again.
C30_EndsOnExitInterruptOrEof ==
    /\ [](OneActionPerChoice
          /\ (menu.pc = "ended" => menu.why \in {"exit", "interrupt", "eof"}))
    /\ [][MenuAgain]_vars

\* C30, its case: the handling of a choice raised, the end of the input was
\* met at the pause that follows, and the loop has ended
C30_Witness ==
    /\ menu.pc = "ended"
    /\ menu.why = "eof"
    /\ menu.did = <<"invalid">>
    /\ menu.choice = "11"

====
